---- MODULE Spec2Model ----
(***************************************************************************)
(* Model of the Delaware probate scraper.                                  *)
(*                                                                         *)
(*   main.py     DelawareScraper.scrape_single_day      (the "day" walk)   *)
(*   testing.py  DelawareScraper.deep_scrape_all_results (the "deep" walk) *)
(*   main.py     wait_for_frame_by_name / wait_for_frame_by_url_fragment   *)
(*   main.py, testing.py   the navigation steps (goto_login ...            *)
(*               click_search_button) and main()                           *)
(*                                                                         *)
(* The browser and the site are the environment.  Every awaited browser    *)
(* call is an input of the action that makes it: the action draws the      *)
(* call's outcome with \E from the outcomes the call can have in the       *)
(* displayed view.  Outcomes that need the site to misbehave (a timeout on *)
(* something that is displayed, an exception) are counted in `faults` and  *)
(* bounded by MaxFaults.                                                   *)
(***************************************************************************)
EXTENDS Integers, Sequences, FiniteSets, TLC

(***************************************************************************)
(* Bounds of the model.                                                    *)
(*                                                                         *)
(* max_pages and RowBudget stand for the literals 10 (main.py:916) and 40  *)
(* (main.py:941).  The walk only compares page_index and row_idx with      *)
(* them, so the model instantiates them with small values; every formula   *)
(* below is stated in terms of the names, not of the values.               *)
(***************************************************************************)
max_pages == 3
RowBudget == 5
MaxRows == 3
MaxSitePages == 4
MaxFaults == 1
DeepPageCap == 4
SleepLag == 50

(***************************************************************************)
(* Program constants.                                                      *)
(***************************************************************************)
MissLimit == 3

VARIABLES
  prog,               \* "day" (main.py) or "deep" (testing.py): which walk runs
  pc,                 \* position of the walk
  page_index,         \* main.py:917, testing.py:988
  row_idx,            \* main.py:941, testing.py:1003
  consecutive_misses, \* main.py:937
  page_records,       \* main.py:938
  all_records,        \* main.py:902, testing.py:987
  num_rows,           \* testing.py:1000
  frameFresh,         \* deep: resultListFrame was resolved since the last navigation
  view,               \* what the browser tab displays: "results", "detail", "other"
  shownPage,          \* the results page the site displays
  nRows,              \* site: row links on every results page
  sitePages,          \* site: number of results pages
  faults,             \* environment misbehaviours so far (counted from the
                      \* allowance a specification starts with, if any)
  hist,               \* history of the walk (observations only, never read by it)
  fw,                 \* a wait_for_frame_by_name / _by_url_fragment call
  run                 \* the run of main(), or one call of a navigation step

vars == << prog, pc, page_index, row_idx, consecutive_misses, page_records,
           all_records, num_rows, frameFresh, view, shownPage, nRows,
           sitePages, faults, hist, fw, run >>

\* what no step of a walk changes
others == << nRows, sitePages, fw, run >>

(***************************************************************************)
(* The site's data.  Row r of a results page opens a detail view whose     *)
(* fields depend on r only; the rows cycle through the four shapes of a    *)
(* representatives tab: two complete representatives, none, two of which   *)
(* the second has no address row, one representative.                      *)
(***************************************************************************)
None == "(None)"                         \* Python's None

CaseNoTab == << "CF-0", "CF-1", "CF-2", "CF-3", "CF-4", "CF-5" >>
AddrTab == << "1 ELM ST, MEDIA, PA, 19063", "", "3 ASH RD, MEDIA, PA, 19063",
              "MEDIA, 19063", "5 FIR LN, CHESTER, PA, 19013", "" >>

SiteCaseNo(r) == CaseNoTab[(r % Len(CaseNoTab)) + 1]
SiteAddress(r) == AddrTab[(r % Len(AddrTab)) + 1]
SiteFilingDate == "01/15/2025"

Rep(n, a) == [representative_name |-> n, representative_address |-> a]

\* The representatives a detail view lists.
SiteReps(r) ==
  CASE r % 4 = 0 -> << Rep("DEE FOX", "9 MAIN ST"), Rep("ED GUY", "2 HILL RD") >>
    [] r % 4 = 1 -> << >>
    [] r % 4 = 2 -> << Rep("BOB RAY", "7 PINE AVE"), Rep("CY DOE", "") >>
    [] OTHER     -> << Rep("ANN LEE", "12 OAK ST") >>

\* The texts of the data rows (tr.evenrow, tr.oddrow) of its representatives tab.
SiteRepRows(r) ==
  CASE r % 4 = 0 -> << "DEE FOX", "9 MAIN ST", "ED GUY", "2 HILL RD" >>
    [] r % 4 = 1 -> << >>
    [] r % 4 = 2 -> << "BOB RAY", "7 PINE AVE", "CY DOE" >>
    [] OTHER     -> << "ANN LEE", "12 OAK ST" >>

\* Which of the site's texts hold a digit, and which a street word.
DigitTexts == { "12 OAK ST", "7 PINE AVE", "9 MAIN ST", "2 HILL RD" }
StreetWordTexts == { "12 OAK ST", "7 PINE AVE", "9 MAIN ST", "2 HILL RD" }

CaseIdTab == << "9000", "9001", "9002", "9003", "9004", "9005" >>
SiteCaseId(r) == CaseIdTab[(r % Len(CaseIdTab)) + 1]

(***************************************************************************)
(* Python dictionaries are functions on their keys.                        *)
(***************************************************************************)
EmptyDict == [k \in {} |-> ""]
Get(d, k, default) == IF k \in DOMAIN d THEN d[k] ELSE default
Merge(d, e) == e @@ d                      \* {**d, **e}: e's keys win
Truthy(s) == s # "" /\ s # None            \* a non-empty string

Indices(s) == [i \in 1..Len(s) |-> i]

(***************************************************************************)
(* History of the walk.                                                    *)
(*   emitted       every record added to the output so far, in the order   *)
(*                 of the additions, with the page index, row index and    *)
(*                 position in the extraction it was added for             *)
(*   pages         the page indices whose row loop was entered             *)
(*   clickFailRun  how many row indices in a row, up to the last one       *)
(*                 attempted on this page, had their click fail            *)
(*   missRun       the same for misses (failed click or failed detail load)*)
(*   pageMisses    the misses of this page, whatever lies between them     *)
(*   backFailed    the last return to the results list on this page failed *)
(*   lastRow       the last processed detail view: representatives it      *)
(*                 lists, representatives extracted, records added, and    *)
(*                 whether the two extractions went through                *)
(*   staleUse      a frame handle was used after a navigation that         *)
(*                 followed its resolution                                 *)
(***************************************************************************)
NoRow ==
  [ page |-> 0, row |-> 0, listed |-> 0, reps |-> 0, added |-> 0,
    decOk |-> TRUE, repsOk |-> TRUE ]

HistInit ==
  [ emitted |-> << >>, pages |-> << >>, clickFailRun |-> 0, missRun |-> 0,
    pageMisses |-> 0,
    backFailed |-> FALSE, lastRow |-> NoRow, staleUse |-> FALSE ]

Emission(recs, idx) ==
  [ i \in 1..Len(recs) |->
      [ rec |-> recs[i], at |-> << page_index, row_idx, idx[i] >> ] ]

\* no frame wait is in progress
NoWait == [ fn |-> "none" ]

\* no run of main() and no call of a navigation step is in progress
NoRun == [ pc |-> "none" ]

(***************************************************************************)
(* Environment: outcomes the browser calls can have.  A fault is an        *)
(* outcome that needs the site or the browser to misbehave.                *)
(***************************************************************************)
MayFault(n) == faults + n <= MaxFaults
LinkShown(i) == view = "results" /\ i < nRows

(***************************************************************************)
(* main.py, scrape_single_day                                              *)
(***************************************************************************)

\* main.py:941  for row_idx in range(40)
InRowRange(i) == i < RowBudget

\* the miss limit taken one too low
MissLimitReached_Early(m) == m >= MissLimit - 1

\* the miss limit taken one too high
MissLimitReached_Late(m) == m >= MissLimit + 1

\* main.py:956  if consecutive_misses >= 3
MissLimitReached(m) == m >= MissLimit

\* main.py:1057  if page_index < max_pages
MorePagesAllowed(p) == p < max_pages

\* every continue taken as a break
NextRow_Break == pc' = "end_page" /\ row_idx' = row_idx

\* main.py:941: the for statement takes the next index, or the loop ends.
NextRow ==
  IF InRowRange(row_idx + 1)
    THEN pc' = "click" /\ row_idx' = row_idx + 1
    ELSE pc' = "end_page" /\ row_idx' = row_idx

\* main.py:1012-1017  base_record
BaseRecord(dec_info, case_meta) ==
  Merge([ case_file_no     |-> Get(dec_info, "case_file_no", ""),
          filing_date      |-> Get(dec_info, "filing_date", ""),
          decedent_address |-> Get(dec_info, "decedent_address", "") ],
        case_meta)

\* main.py:1019-1022  record_data
RecordData(base_record, reps) ==
  IF reps # << >>
    THEN [ i \in 1..Len(reps) |-> Merge(base_record, reps[i]) ]
    ELSE << Merge(base_record, Rep("", "")) >>

\* the filter that looks at the name only
IsValidRecord_NameOnly(r) == Truthy(Get(r, "representative_name", ""))

\* main.py:1025-1028  the filter's condition
IsValidRecord(r) ==
  /\ Truthy(Get(r, "representative_name", ""))
  /\ Truthy(Get(r, "representative_address", ""))

\* main.py:1025-1028  positions of record_data the filter keeps
ValidIndices(record_data) ==
  SelectSeq(Indices(record_data), LAMBDA i : IsValidRecord(record_data[i]))

\* main.py:1025-1028  valid_records
ValidRecords(record_data) ==
  LET idx == ValidIndices(record_data)
  IN  [ i \in 1..Len(idx) |-> record_data[idx[i]] ]

\* main.py:508-593  what extract_decedent_info_atomic returns for row r
DecedentInfo(r) ==
  [ case_file_no     |-> SiteCaseNo(r),
    filing_date      |-> SiteFilingDate,
    decedent_address |-> SiteAddress(r) ]

\* main.py:611-616  looks_like_address
looks_like_address(t) == t \in DigitTexts \/ t \in StreetWordTexts

\* main.py:618-633  the scan of the rows: (reps, current) after rows 1..n
RECURSIVE ScanRows(_, _)
ScanRows(rows, n) ==
  IF n = 0 THEN [ reps |-> << >>, name |-> "", address |-> "" ]
  ELSE LET s == ScanRows(rows, n - 1)
           t == rows[n]
       IN  IF t = "" THEN s
           ELSE IF ~looks_like_address(t) /\ Len(t) < 120
             THEN IF s.name # ""
                    THEN [ reps |-> Append(s.reps, Rep(s.name, s.address)),
                           name |-> t, address |-> "" ]
                    ELSE [ s EXCEPT !.name = t ]
             ELSE [ s EXCEPT !.address =
                      IF s.address # "" THEN s.address \o " " \o t ELSE t ]

\* main.py:595-642  extract_representatives_atomic
extract_representatives_atomic(rows) ==
  LET s == ScanRows(rows, Len(rows))
  IN  IF s.name # "" THEN Append(s.reps, Rep(s.name, s.address)) ELSE s.reps

\* main.py:998-1009  caseFileId / caseFileNum of the detail frame's URL
CaseMeta(r) == [ caseFileId |-> SiteCaseId(r), caseFileNum |-> SiteCaseNo(r) ]

\* main.py:919-938  top of the page loop: wait for a row link, up to 5 waits
ResultsWaitOutcomes ==
  IF view = "results" /\ nRows > 0
    THEN {"loaded"} \cup (IF MayFault(1) THEN {"timeout"} ELSE {})
    ELSE {"absent"}

\* the page without a row link passed over: on to the next page
ResultsAbsent_Skip ==
  /\ pc' = "next_page"
  /\ UNCHANGED << row_idx, consecutive_misses, page_records, hist >>

\* main.py:929-932  no row link after the 5 waits: return all_records
ResultsAbsent ==
  /\ pc' = "returned"
  /\ UNCHANGED << row_idx, consecutive_misses, page_records, hist >>

WaitForResults ==
  /\ prog = "day" /\ pc = "wait_results"
  /\ \E o \in ResultsWaitOutcomes :
       /\ faults' = IF o = "timeout" THEN faults + 1 ELSE faults
       /\ IF o = "loaded" /\ page_index <= max_pages
            THEN /\ pc' = "click"
                 /\ row_idx' = 0
                 /\ consecutive_misses' = 0
                 /\ page_records' = << >>
                 /\ hist' = [hist EXCEPT !.pages = Append(@, page_index),
                                         !.clickFailRun = 0, !.missRun = 0,
                                         !.pageMisses = 0,
                                         !.backFailed = FALSE]
            ELSE ResultsAbsent
  /\ UNCHANGED << prog, page_index, all_records, num_rows, frameFresh, view,
                  shownPage, others >>

\* main.py:686-713  click_result_link_by_index, as called at main.py:944-951
\* (up to 3 calls).  "raise": the unguarded count() at main.py:693/703 raises.
ClickOutcomes ==
  (IF LinkShown(row_idx) THEN {"ok"} ELSE {"fail"})
    \cup (IF MayFault(1) THEN {"fail", "raise"} ELSE {})

\* main.py:941-959  click the row's link; a failed click is a miss
ClickRecord ==
  /\ prog = "day" /\ pc = "click"
  /\ \E o \in ClickOutcomes :
       /\ faults' = IF o = "raise" \/ (o = "fail" /\ LinkShown(row_idx))
                      THEN faults + 1 ELSE faults
       /\ CASE o = "ok" ->
                 /\ pc' = "wait_doc"
                 /\ view' = "detail"
                 /\ hist' = [hist EXCEPT !.clickFailRun = 0]
                 /\ UNCHANGED << row_idx, consecutive_misses >>
            [] o = "fail" ->
                 /\ consecutive_misses' = consecutive_misses + 1
                 /\ hist' = [hist EXCEPT !.clickFailRun = @ + 1, !.missRun = @ + 1,
                                         !.pageMisses = @ + 1]
                 /\ IF MissLimitReached(consecutive_misses + 1)
                      THEN pc' = "end_page" /\ row_idx' = row_idx   \* break
                      ELSE NextRow                                  \* continue
                 /\ UNCHANGED view
            [] OTHER ->
                 /\ pc' = "raised"
                 /\ UNCHANGED << row_idx, consecutive_misses, view, hist >>
  /\ UNCHANGED << prog, page_index, page_records, all_records, num_rows,
                  frameFresh, shownPage, others >>

\* main.py:961-978  wait for the detail view (3 waits); a failed load is a miss
\* and the loop continues without returning to the results list
WaitForDetails ==
  /\ prog = "day" /\ pc = "wait_doc"
  /\ \/ /\ pc' = "extract"
        /\ UNCHANGED << row_idx, consecutive_misses, view, faults, hist >>
     \/ /\ MayFault(1)
        /\ faults' = faults + 1
        /\ consecutive_misses' = consecutive_misses + 1
        /\ hist' = [hist EXCEPT !.missRun = @ + 1, !.pageMisses = @ + 1]
        /\ view' \in {"detail", "results"}
        /\ NextRow
  /\ UNCHANGED << prog, page_index, page_records, all_records, num_rows,
                  frameFresh, shownPage, others >>

\* main.py:980-1034  extract, build the row's records, keep the valid ones
ExtractRecord ==
  /\ prog = "day" /\ pc = "extract"
  /\ \E decOk \in BOOLEAN, repsOk \in BOOLEAN, metaOk \in BOOLEAN :
       LET cost == (IF decOk THEN 0 ELSE 1) + (IF repsOk THEN 0 ELSE 1)
                     + (IF metaOk THEN 0 ELSE 1)
           dec_info == IF decOk THEN DecedentInfo(row_idx) ELSE EmptyDict
           reps == IF repsOk THEN extract_representatives_atomic(SiteRepRows(row_idx))
                          ELSE << >>
           case_meta == IF metaOk THEN CaseMeta(row_idx) ELSE EmptyDict
           record_data == RecordData(BaseRecord(dec_info, case_meta), reps)
           valid_records == ValidRecords(record_data)
       IN  /\ MayFault(cost)
           /\ faults' = faults + cost
           /\ page_records' = page_records \o valid_records
           /\ consecutive_misses' = 0
           /\ hist' = [hist EXCEPT
                  !.emitted = @ \o Emission(valid_records, ValidIndices(record_data)),
                  !.missRun = 0,
                  !.lastRow = [page |-> page_index, row |-> row_idx,
                               listed |-> Len(SiteReps(row_idx)),
                               reps |-> Len(reps), added |-> Len(valid_records),
                               decOk |-> decOk, repsOk |-> repsOk]]
  /\ pc' = "back"
  /\ UNCHANGED << prog, page_index, row_idx, all_records, num_rows, frameFresh,
                  view, shownPage, others >>

\* main.py:715-799  click_back_to_results, as called at main.py:1036-1043
\* (up to 3 calls of up to 5 attempts).  "stuck": no attempt gets back;
\* "late": the results list comes back after the last verification gave up.
BackOutcomes == {"ok"} \cup (IF MayFault(1) THEN {"stuck", "late"} ELSE {})

\* main.py:1036-1049  return to the results list, or stop the row loop
ReturnToResults ==
  /\ prog = "day" /\ pc = "back"
  /\ \E o \in BackOutcomes :
       /\ faults' = IF o = "ok" THEN faults ELSE faults + 1
       /\ view' = IF o = "stuck" THEN "detail" ELSE "results"
       /\ hist' = [hist EXCEPT !.backFailed = (o # "ok")]
       /\ IF o = "ok"
            THEN NextRow
            ELSE pc' = "end_page" /\ row_idx' = row_idx          \* break
  /\ UNCHANGED << prog, page_index, consecutive_misses, page_records,
                  all_records, num_rows, frameFresh, shownPage, others >>

\* the page's records put in front of the list
Extend_Front(records, more) == more \o records

\* main.py:1051-1054  all_records.extend(page_records)
Extend(records, more) == records \o more

EndOfPage ==
  /\ prog = "day" /\ pc = "end_page"
  /\ all_records' = Extend(all_records, page_records)
  /\ pc' = "next_page"
  /\ UNCHANGED << prog, page_index, row_idx, consecutive_misses, page_records,
                  num_rows, frameFresh, view, shownPage, others, faults, hist >>

\* main.py:801-893  goto_results_page(n), as called at main.py:1059-1065
\* (up to 3 calls).  It reports success when a row link is displayed after
\* the page number was submitted: "moved" when the site shows page n,
\* "stayed" when the site has no page n and keeps showing the current page.
GotoOutcomes(n) ==
  IF view # "results" THEN {"fail"}
  ELSE IF n <= sitePages
    THEN (IF nRows > 0 THEN {"moved"} ELSE {"fail"})
           \cup (IF MayFault(1) THEN {"fail"} ELSE {})
    ELSE {"fail"} \cup (IF nRows > 0 THEN {"stayed"} ELSE {})

\* the failed page navigation taken as an exception
NextPageFailed_Raise ==
  /\ pc' = "raised"
  /\ UNCHANGED << page_index, shownPage >>

\* main.py:1067-1069  no next page was reached: leave the page loop, and
\* main.py:1077 return all_records
NextPageFailed ==
  /\ pc' = "returned"
  /\ UNCHANGED << page_index, shownPage >>

\* main.py:1056-1074  go to the next results page, or end the walk
NextPage ==
  /\ prog = "day" /\ pc = "next_page"
  /\ IF MorePagesAllowed(page_index)
       THEN \E o \in GotoOutcomes(page_index + 1) :
              /\ faults' = IF o = "fail" /\ view = "results"
                                /\ page_index + 1 <= sitePages /\ nRows > 0
                             THEN faults + 1 ELSE faults
              /\ IF o = "fail"
                   THEN NextPageFailed
                   ELSE /\ pc' = "wait_results"
                        /\ page_index' = page_index + 1
                        /\ shownPage' = IF o = "moved" THEN page_index + 1
                                                       ELSE shownPage
       ELSE /\ pc' = "returned"                                  \* break
            /\ UNCHANGED << page_index, shownPage, faults >>
  /\ UNCHANGED << prog, row_idx, consecutive_misses, page_records, all_records,
                  num_rows, frameFresh, view, others, hist >>

DayNext ==
  \/ WaitForResults
  \/ ClickRecord
  \/ WaitForDetails
  \/ ExtractRecord
  \/ ReturnToResults
  \/ EndOfPage
  \/ NextPage

DayInit ==
  /\ prog = "day"
  /\ pc = "wait_results"
  /\ page_index = 1
  /\ row_idx = 0
  /\ consecutive_misses = 0
  /\ page_records = << >>
  /\ all_records = << >>
  /\ num_rows = 0
  /\ frameFresh = FALSE
  /\ view = "results"
  /\ shownPage = 1
  /\ nRows \in 0..MaxRows
  /\ sitePages \in 1..MaxSitePages
  /\ faults = 0
  /\ hist = HistInit
  /\ fw = NoWait
  /\ run = NoRun

SpecDay == DayInit /\ [][DayNext]_vars

\* scrape_single_day on a site of one results page that misbehaves often:
\* the count of the faults starts MissLimit below zero, so that the walk
\* may meet MissLimit faults more than MaxFaults
FlakyInit ==
  /\ prog = "day"
  /\ pc = "wait_results"
  /\ page_index = 1
  /\ row_idx = 0
  /\ consecutive_misses = 0
  /\ page_records = << >>
  /\ all_records = << >>
  /\ num_rows = 0
  /\ frameFresh = FALSE
  /\ view = "results"
  /\ shownPage = 1
  /\ nRows \in 0..MaxRows
  /\ sitePages = 1
  /\ faults = 0 - MissLimit
  /\ hist = HistInit
  /\ fw = NoWait
  /\ run = NoRun

SpecFlaky == FlakyInit /\ [][DayNext]_vars

(***************************************************************************)
(* testing.py, deep_scrape_all_results                                     *)
(***************************************************************************)

\* testing.py:547-580  the rows under the Personal Representative header:
\* the first row is the name, the second the address
HeaderReps(rows) ==
  LET name == IF Len(rows) >= 1 THEN rows[1] ELSE ""
      address == IF Len(rows) >= 2 THEN rows[2] ELSE ""
  IN  IF name # "" THEN << Rep(name, address) >> ELSE << >>

\* testing.py:582-610  the fallback scan: (reps, current) after rows 1..n
RECURSIVE FallbackScan(_, _)
FallbackScan(rows, n) ==
  IF n = 0 THEN [ reps |-> << >>, name |-> "", address |-> "" ]
  ELSE LET s == FallbackScan(rows, n - 1)
           t == rows[n]
       IN  IF t = "" THEN s
           ELSE IF t \notin DigitTexts /\ Len(t) < 100
             THEN [ reps |-> IF s.name # ""
                               THEN Append(s.reps, Rep(s.name, s.address))
                               ELSE s.reps,
                    name |-> t, address |-> "" ]
           ELSE IF t \in DigitTexts \/ t \in StreetWordTexts
             THEN [ s EXCEPT !.address = t ]
             ELSE s

\* testing.py:537-622  extract_representatives
extract_representatives(rows) ==
  LET first == HeaderReps(rows)
      s == FallbackScan(rows, Len(rows))
  IN  IF first # << >> THEN first
      ELSE IF s.name # "" THEN Append(s.reps, Rep(s.name, s.address))
      ELSE s.reps

\* testing.py:721-806  what extract_decedent_info returns for row r
DeepDecedentInfo(r) ==
  [ filing_date |-> SiteFilingDate, decedent_address |-> SiteAddress(r) ]

\* testing.py:1033  dec_info before the extraction
DeepDecedentDefault == [ filing_date |-> "", decedent_address |-> "" ]

\* testing.py:1054-1058  base_record
DeepBaseRecord(dec_info, case_meta) ==
  Merge([ filing_date      |-> Get(dec_info, "filing_date", None),
          decedent_address |-> Get(dec_info, "decedent_address", None) ],
        case_meta)

\* testing.py:1060-1065  the records appended for one detail view
DeepRecords(base_record, reps) ==
  IF reps # << >>
    THEN [ i \in 1..Len(reps) |-> Merge(base_record, reps[i]) ]
    ELSE << Merge(base_record, Rep("", "")) >>

\* testing.py:1003  for row_idx in range(num_rows): the next index, or the end
DeepNextRow ==
  IF row_idx + 1 < num_rows
    THEN pc' = "d_click" /\ row_idx' = row_idx + 1
    ELSE pc' = "d_next" /\ row_idx' = row_idx

\* testing.py:288-320  collect_result_row_links: the frames of the results
\* list are found when the results list is displayed
CollectOutcomes ==
  IF view = "results"
    THEN {"ok"} \cup (IF MayFault(1) THEN {"fail"} ELSE {})
    ELSE {"fail"}

\* testing.py:990-1001  top of the page loop
DeepCollect ==
  /\ prog = "deep" /\ pc = "d_collect"
  /\ \E o \in CollectOutcomes :
       /\ faults' = IF o = "fail" /\ view = "results" THEN faults + 1 ELSE faults
       /\ IF o = "ok"
            THEN /\ num_rows' = nRows
                 /\ frameFresh' = TRUE
                 /\ row_idx' = 0
                 /\ pc' = IF nRows > 0 THEN "d_click" ELSE "d_next"
                 /\ hist' = [hist EXCEPT !.pages = Append(@, page_index),
                                         !.clickFailRun = 0, !.missRun = 0,
                                         !.pageMisses = 0,
                                         !.backFailed = FALSE]
            ELSE /\ pc' = "returned"                   \* testing.py:996 break
                 /\ UNCHANGED << num_rows, frameFresh, row_idx, hist >>
  /\ UNCHANGED << prog, page_index, consecutive_misses, page_records,
                  all_records, view, shownPage, others >>

\* testing.py:322-335  click_result_link_by_index(resultListFrame, index).
\* A handle resolved before the last navigation is detached: using it raises,
\* unless the frame object happens to be still attached, and then the call
\* sees whatever is displayed.
DeepClickOutcomes ==
  (IF LinkShown(row_idx) THEN {"ok"} ELSE {"skip"})
    \cup (IF ~frameFresh \/ MayFault(1) THEN {"raise"} ELSE {})

\* testing.py:1003-1010  click the row's link with the handle held
DeepClick ==
  /\ prog = "deep" /\ pc = "d_click"
  /\ \E o \in DeepClickOutcomes :
       /\ faults' = IF o = "raise" /\ frameFresh THEN faults + 1 ELSE faults
       /\ hist' = [hist EXCEPT !.staleUse = @ \/ ~frameFresh,
                               !.clickFailRun = IF o = "ok" THEN 0 ELSE @ + 1]
       /\ CASE o = "ok" ->
                 /\ pc' = "d_details"
                 /\ view' = "detail"
                 /\ frameFresh' = FALSE
                 /\ UNCHANGED row_idx
            [] o = "skip" ->
                 /\ DeepNextRow                                  \* continue
                 /\ UNCHANGED << view, frameFresh >>
            [] OTHER ->
                 /\ pc' = "raised"
                 /\ UNCHANGED << row_idx, view, frameFresh >>
  /\ UNCHANGED << prog, page_index, consecutive_misses, page_records,
                  all_records, num_rows, shownPage, others >>

\* testing.py:1012-1022  wait for the detail view; on failure try to go back
\* (the outcome is not looked at) and continue with the next row
DeepDetails ==
  /\ prog = "deep" /\ pc = "d_details"
  /\ \/ /\ pc' = "d_extract"
        /\ UNCHANGED << row_idx, view, faults >>
     \/ /\ MayFault(1)
        /\ faults' = faults + 1
        /\ view' \in {"detail", "results"}
        /\ DeepNextRow
  /\ UNCHANGED << prog, page_index, consecutive_misses, page_records,
                  all_records, num_rows, frameFresh, shownPage, others, hist >>

\* testing.py:1024-1065  extract and append the row's records
DeepExtract ==
  /\ prog = "deep" /\ pc = "d_extract"
  /\ \E decOk \in BOOLEAN, repsOk \in BOOLEAN, metaOk \in BOOLEAN :
       LET cost == (IF decOk THEN 0 ELSE 1) + (IF repsOk THEN 0 ELSE 1)
                     + (IF metaOk THEN 0 ELSE 1)
           reps == IF repsOk THEN extract_representatives(SiteRepRows(row_idx))
                             ELSE << >>
           dec_info == IF decOk THEN DeepDecedentInfo(row_idx)
                                ELSE DeepDecedentDefault
           case_meta == IF metaOk THEN CaseMeta(row_idx) ELSE EmptyDict
           recs == DeepRecords(DeepBaseRecord(dec_info, case_meta), reps)
       IN  /\ MayFault(cost)
           /\ faults' = faults + cost
           /\ all_records' = all_records \o recs
           /\ hist' = [hist EXCEPT
                  !.emitted = @ \o Emission(recs, Indices(recs)),
                  !.lastRow = [page |-> page_index, row |-> row_idx,
                               listed |-> Len(SiteReps(row_idx)),
                               reps |-> Len(reps), added |-> Len(recs),
                               decOk |-> decOk, repsOk |-> repsOk]]
  /\ pc' = "d_back"
  /\ UNCHANGED << prog, page_index, row_idx, consecutive_misses, page_records,
                  num_rows, frameFresh, view, shownPage, others >>

\* testing.py:1067-1085  go back (click_back_to_results returns False on
\* failure, it does not raise), then find the results list again: the row
\* loop goes on when it is found and stops when it is not
DeepBack ==
  /\ prog = "deep" /\ pc = "d_back"
  /\ \E o \in BackOutcomes :
       LET shown == IF o = "stuck" THEN "detail" ELSE "results"
           cost == IF o = "ok" THEN 0 ELSE 1
       IN  /\ view' = shown
           /\ hist' = [hist EXCEPT !.backFailed = (o # "ok")]
           /\ \/ /\ shown = "results"
                 /\ faults' = faults + cost
                 /\ frameFresh' = TRUE
                 /\ DeepNextRow
              \/ /\ shown = "detail" \/ MayFault(cost + 1)
                 /\ faults' = faults + cost + (IF shown = "results" THEN 1 ELSE 0)
                 /\ frameFresh' = FALSE
                 /\ pc' = "d_next" /\ row_idx' = row_idx         \* break
  /\ UNCHANGED << prog, page_index, consecutive_misses, page_records,
                  all_records, num_rows, shownPage, others >>

\* testing.py:918-980  click_next_results_page.  It raises when the frames
\* of the results list are not found; otherwise it reports whether a Next
\* control was clicked: "next" when the site shows the next page, "phantom"
\* when a Next control is clicked on the last page and the site stays there.
DeepNextOutcomes ==
  IF view # "results" THEN {"raise"}
  ELSE IF shownPage < sitePages
    THEN (IF page_index < DeepPageCap THEN {"next"} ELSE {})
           \cup (IF MayFault(1) THEN {"none", "raise"} ELSE {})
    ELSE {"none"} \cup (IF page_index < DeepPageCap THEN {"phantom"} ELSE {})

\* testing.py:1087-1095  go to the next results page, or end the walk
DeepNextPage ==
  /\ prog = "deep" /\ pc = "d_next"
  /\ \E o \in DeepNextOutcomes :
       /\ faults' = IF o \in {"none", "raise"} /\ view = "results"
                        /\ shownPage < sitePages
                      THEN faults + 1 ELSE faults
       /\ CASE o \in {"next", "phantom"} ->
                 /\ pc' = "d_collect"
                 /\ page_index' = page_index + 1
                 /\ shownPage' = IF o = "next" THEN shownPage + 1 ELSE shownPage
                 /\ frameFresh' = FALSE
            [] o = "none" ->
                 /\ pc' = "returned"                   \* testing.py:1091 break
                 /\ UNCHANGED << page_index, shownPage, frameFresh >>
            [] OTHER ->
                 /\ pc' = "raised"
                 /\ UNCHANGED << page_index, shownPage, frameFresh >>
  /\ UNCHANGED << prog, row_idx, consecutive_misses, page_records, all_records,
                  num_rows, view, others, hist >>

DeepNext ==
  \/ DeepCollect
  \/ DeepClick
  \/ DeepDetails
  \/ DeepExtract
  \/ DeepBack
  \/ DeepNextPage

DeepInit ==
  /\ prog = "deep"
  /\ pc = "d_collect"
  /\ page_index = 1
  /\ row_idx = 0
  /\ consecutive_misses = 0
  /\ page_records = << >>
  /\ all_records = << >>
  /\ num_rows = 0
  /\ frameFresh = FALSE
  /\ view = "results"
  /\ shownPage = 1
  /\ nRows \in 0..MaxRows
  /\ sitePages \in 1..MaxSitePages
  /\ faults = 0
  /\ hist = HistInit
  /\ fw = NoWait
  /\ run = NoRun

SpecDeep == DeepInit /\ [][DeepNext]_vars

(***************************************************************************)
(* Both walks.                                                             *)
(***************************************************************************)
Init == DayInit \/ DeepInit
Next == DayNext \/ DeepNext
Spec == Init /\ [][Next]_vars

(***************************************************************************)
(* main.py, wait_for_frame_by_name and wait_for_frame_by_url_fragment      *)
(*                                                                         *)
(* fw.t is the time since the call started, in milliseconds.  A sleep      *)
(* lasts its nominal time or SleepLag longer.  The frame looked for may    *)
(* appear in and vanish from the frame tree at any moment.                 *)
(*   fw.polls  scans of the frame list made                                *)
(*   fw.hits   scans that found a matching frame                           *)
(***************************************************************************)
NameTimeouts == { 0, 100, 250, 400 }       \* timeout, milliseconds
UrlTimeouts == { 0, 1, 2, 3 }              \* timeout, seconds

\* the variables of the walks
walk == << prog, pc, page_index, row_idx, consecutive_misses, page_records,
           all_records, num_rows, frameFresh, view, shownPage, nRows,
           sitePages, faults, hist >>

\* main.py:308  while (time.time() - start_time) * 1000 < timeout
NameLoopGoesOn(t, timeout) == t < timeout

\* the loop taken one round short
UrlLoopGoesOn_Short(i, timeout) == i < timeout - 1

\* main.py:293  for i in range(timeout)
UrlLoopGoesOn(i, timeout) == i < timeout

\* main.py:315 asyncio.sleep(0.1), main.py:301 asyncio.sleep(1)
SleepMs(fn) == IF fn = "name" THEN 100 ELSE 1000

\* the timeout of the call in milliseconds
TimeoutMs(w) == IF w.fn = "name" THEN w.timeout ELSE w.timeout * 1000

\* main.py:293, main.py:308  the loop's test; main.py:302, main.py:316 the raise
FrameLoopTest ==
  /\ fw.fn \in {"name", "url"} /\ fw.pc = "test"
  /\ fw' = IF \/ fw.fn = "name" /\ NameLoopGoesOn(fw.t, fw.timeout)
              \/ fw.fn = "url" /\ UrlLoopGoesOn(fw.i, fw.timeout)
             THEN [fw EXCEPT !.pc = "poll"]
             ELSE [fw EXCEPT !.pc = "done", !.result = "timeout"]
  /\ UNCHANGED << walk, run >>

\* main.py:294-298, main.py:309-314  scan the frames; return the first match
FramePoll ==
  /\ fw.fn \in {"name", "url"} /\ fw.pc = "poll"
  /\ fw' = IF fw.present
             THEN [fw EXCEPT !.pc = "done", !.result = "found",
                             !.polls = @ + 1, !.hits = @ + 1]
             ELSE [fw EXCEPT !.pc = "sleep", !.polls = @ + 1]
  /\ UNCHANGED << walk, run >>

\* main.py:301, main.py:315  sleep, then the next round of the loop
FrameSleep ==
  /\ fw.fn \in {"name", "url"} /\ fw.pc = "sleep"
  /\ \E lag \in {0, SleepLag} :
       fw' = [fw EXCEPT !.pc = "test", !.t = @ + SleepMs(fw.fn) + lag,
                        !.i = @ + 1]
  /\ UNCHANGED << walk, run >>

\* the site: the frame appears or vanishes while the call is waiting
FrameChange ==
  /\ fw.fn \in {"name", "url"} /\ fw.pc # "done"
  /\ fw' = [fw EXCEPT !.present = ~@]
  /\ UNCHANGED << walk, run >>

WalkIdle ==
  /\ prog = "none"
  /\ pc = "idle"
  /\ page_index = 1
  /\ row_idx = 0
  /\ consecutive_misses = 0
  /\ page_records = << >>
  /\ all_records = << >>
  /\ num_rows = 0
  /\ frameFresh = FALSE
  /\ view = "results"
  /\ shownPage = 1
  /\ nRows = 0
  /\ sitePages = 1
  /\ faults = 0
  /\ hist = HistInit

FrameInit ==
  /\ WalkIdle
  /\ run = NoRun
  /\ \E fn \in {"name", "url"}, present \in BOOLEAN :
       \E timeout \in (IF fn = "name" THEN NameTimeouts ELSE UrlTimeouts) :
         fw = [ fn |-> fn, timeout |-> timeout, t |-> 0, i |-> 0,
                present |-> present, pc |-> "test", result |-> "none",
                polls |-> 0, hits |-> 0 ]

FrameNext ==
  \/ FrameLoopTest
  \/ FramePoll
  \/ FrameSleep
  \/ FrameChange

SpecFrame == FrameInit /\ [][FrameNext]_vars

(***************************************************************************)
(* Dates.  A day is << year, month, day >>; the clock reads one of         *)
(* ClockDays.  The default from_date of testing.py is the literal          *)
(* 01/01/2025, and the clock reads that day or a later one.                *)
(***************************************************************************)
ClockDays == { << 2025, 1, 1 >>, << 2025, 3, 9 >>, << 2025, 11, 30 >> }
OtherDays == { << 2025, 6, 30 >>, << 2025, 12, 31 >> }
KnownDays == ClockDays \cup OtherDays

TwoDigits ==
  << "01", "02", "03", "04", "05", "06", "07", "08", "09", "10", "11", "12",
     "13", "14", "15", "16", "17", "18", "19", "20", "21", "22", "23", "24",
     "25", "26", "27", "28", "29", "30", "31" >>

YearText(y) == IF y = 2025 THEN "2025" ELSE "2024"

\* the date format with day and month exchanged
strftime_dmY(d) == TwoDigits[d[3]] \o "/" \o TwoDigits[d[2]] \o "/" \o YearText(d[1])

\* main.py:897, testing.py:196  strftime("%m/%d/%Y")
strftime_mdY(d) == TwoDigits[d[2]] \o "/" \o TwoDigits[d[3]] \o "/" \o YearText(d[1])

\* the texts in MM/DD/YYYY form that name the known days
TextOfDay ==
  << 2025, 1, 1 >> :> "01/01/2025" @@ << 2025, 3, 9 >> :> "03/09/2025" @@
  << 2025, 6, 30 >> :> "06/30/2025" @@ << 2025, 11, 30 >> :> "11/30/2025" @@
  << 2025, 12, 31 >> :> "12/31/2025"

\* the day a text in MM/DD/YYYY form names
IsDateText(s) == \E d \in KnownDays : TextOfDay[d] = s
DayOfText(s) == CHOOSE d \in KnownDays : TextOfDay[d] = s

DayLeq(a, b) ==
  \/ a[1] < b[1]
  \/ a[1] = b[1] /\ a[2] < b[2]
  \/ a[1] = b[1] /\ a[2] = b[2] /\ a[3] <= b[3]

(***************************************************************************)
(* main.py and testing.py: goto_login, accept_terms,                       *)
(* click_search_public_records, enter_filing_dates, click_search_button.   *)
(* run.call is one call of one of them:                                    *)
(*   attempt   the loop variable                                           *)
(*   tries     attempts made, fails  attempts that failed                  *)
(*   pauses    the sleeps made between attempts, in seconds                *)
(*   dumps     dumps of the page's markup attempted                        *)
(*   typed     what the from-date and to-date inputs hold                  *)
(***************************************************************************)
MaxRetries == 3
DefaultRetries == 3
DefaultFromDate == "01/01/2025"

RaisingSteps ==
  { "goto_login", "accept_terms", "click_search_public_records",
    "enter_filing_dates" }
StepFns == RaisingSteps \cup { "click_search_button" }

NewCall(file, fn, retries, from_date, to_date, today, caller) ==
  [ file |-> file, fn |-> fn, retries |-> retries, from_date |-> from_date,
    to_date |-> to_date, today |-> today, caller |-> caller,
    attempt |-> 1, tries |-> 0, fails |-> 0, pauses |-> << >>, dumps |-> 0,
    typed |-> [ from |-> "", to |-> "" ], result |-> "running" ]

\* main.py:321 (366, 420, 441, 489)  for attempt in range(1, retries + 1)
CallGoesOn(attempt, retries) == attempt <= retries

\* the last attempt taken one attempt early
IsLastAttempt_Early(attempt, retries) == attempt + 1 >= retries

\* main.py:357 (411, 432, 482, 502)  if attempt == retries
IsLastAttempt(attempt, retries) == attempt = retries

\* main.py:362 asyncio.sleep(3); main.py:416, 435, 485, 505 asyncio.sleep(2)
Backoff(fn) == IF fn = "goto_login" THEN 3 ELSE 2

\* testing.py:195-196  if to_date is None: to_date = today;
\* main.py:437 has no default and no such test
EffectiveToDate(c) ==
  IF c.file = "testing" /\ c.to_date = None
    THEN strftime_mdY(c.today)
    ELSE c.to_date

\* One attempt: "ok", "fail", or for enter_filing_dates "fail_at_to": the
\* from-date is typed and to_input.type raises (main.py:473-474); typing
\* None always raises.
AttemptOutcomes(c) ==
  IF c.fn = "enter_filing_dates"
    THEN (IF EffectiveToDate(c) = None THEN {} ELSE {"ok"})
           \cup {"fail", "fail_at_to"}
    ELSE {"ok", "fail"}

\* main.py:468-474, testing.py:231-237  what the attempt leaves in the inputs
TypedAfter(c, o) ==
  IF c.fn # "enter_filing_dates" \/ o = "fail" THEN c.typed
  ELSE IF o = "ok" THEN [ from |-> c.from_date, to |-> EffectiveToDate(c) ]
  ELSE [ from |-> c.from_date, to |-> "" ]

\* main.py:321-362 and the like: the call after one more attempt
AfterAttempt(c, o) ==
  LET t == [ c EXCEPT !.tries = @ + 1, !.typed = TypedAfter(c, o) ]
  IN  IF o = "ok"
        THEN [ t EXCEPT !.result = IF c.fn = "click_search_button"
                                     THEN "True" ELSE "returned" ]
      ELSE IF IsLastAttempt(c.attempt, c.retries)
        THEN [ t EXCEPT !.fails = @ + 1,
                        !.dumps = IF c.file = "testing" THEN @ + 1 ELSE @,
                        !.result = IF c.fn = "click_search_button"
                                     THEN "False" ELSE "raised" ]
      ELSE [ t EXCEPT !.fails = @ + 1, !.attempt = @ + 1,
                      !.pauses = Append(@, Backoff(c.fn)) ]

\* one round of the retry loop of the call in progress
CallAttempt ==
  /\ run.pc \in {"solo", "steps"}
  /\ run.call.result = "running"
  /\ CallGoesOn(run.call.attempt, run.call.retries)
  /\ \E o \in AttemptOutcomes(run.call) :
       run' = [ run EXCEPT !.call = AfterAttempt(run.call, o) ]
  /\ UNCHANGED << walk, fw >>

\* the loop is over without a return or a raise: the call returns None
CallFallThrough ==
  /\ run.pc \in {"solo", "steps"}
  /\ run.call.result = "running"
  /\ ~CallGoesOn(run.call.attempt, run.call.retries)
  /\ run' = [ run EXCEPT !.call.result = "None" ]
  /\ UNCHANGED << walk, fw >>

\* the calls the two programs make: main.py:1146-1148, 905-906 and
\* testing.py:1170-1174
ProgramCalls ==
  { NewCall(file, fn, DefaultRetries, DefaultFromDate, None, today, "program") :
      file \in {"main", "testing"},
      fn \in {"goto_login", "accept_terms", "click_search_public_records",
              "click_search_button"},
      today \in {<< 2025, 1, 1 >>} }
  \cup
  { NewCall("testing", "enter_filing_dates", DefaultRetries, DefaultFromDate,
            None, today, "program") : today \in ClockDays }
  \cup
  { NewCall("main", "enter_filing_dates", DefaultRetries,
            strftime_mdY(scrape_date), strftime_mdY(scrape_date),
            << 2025, 11, 30 >>, "program") : scrape_date \in ClockDays }

\* calls with other arguments
DirectCalls ==
  { NewCall(file, fn, retries, DefaultFromDate, None, << 2025, 1, 1 >>, "direct") :
      file \in {"main", "testing"}, fn \in StepFns, retries \in 0..MaxRetries }
  \cup
  { NewCall(file, "enter_filing_dates", DefaultRetries, from_date, to_date,
            today, "direct") :
      file \in {"main", "testing"},
      from_date \in { DefaultFromDate, "12/31/2025" },
      to_date \in { None, "06/30/2025" },
      today \in ClockDays }

StepInit ==
  /\ WalkIdle
  /\ fw = NoWait
  /\ \E c \in ProgramCalls \cup DirectCalls : run = [ pc |-> "solo", call |-> c ]

StepNext ==
  \/ CallAttempt
  \/ CallFallThrough

SpecStep == StepInit /\ [][StepNext]_vars

(***************************************************************************)
(* main.py main (1144-1180) and testing.py main (1162-1188): the run.      *)
(* prog = "day" is a run of main.py, prog = "deep" a run of testing.py.    *)
(*   run.steps     the steps started, in the order they were started       *)
(*   run.submit    what click_search_button returned                       *)
(*   run.dumps     dumps of the page's markup attempted by main            *)
(*   run.stepDumps dumps attempted by the navigation steps                 *)
(*   run.exported  the exporter was called, with the records run.handed    *)
(*   run.failed    the step whose exception reached main, or "walk"        *)
(*   run.outcome   "completed": main returned; "exception": main raised    *)
(*   run.closed    closings of the browser                                 *)
(* The clock and the scrape date of a run are one fixed day.               *)
(***************************************************************************)
RunDay == << 2025, 3, 9 >>

\* no call of a navigation step is in progress
NoCall == [ fn |-> "none", result |-> "none" ]

FileOf(p) == IF p = "day" THEN "main" ELSE "testing"

\* main.py:1146-1148, 905-906; testing.py:1170-1174  the steps in their order
StepOrder ==
  << "goto_login", "accept_terms", "click_search_public_records",
     "enter_filing_dates", "click_search_button" >>

\* the call main.py (testing.py) makes of step number k
StepCall(p, k) ==
  IF StepOrder[k] = "enter_filing_dates" /\ p = "day"
    THEN NewCall("main", "enter_filing_dates", DefaultRetries,
                 strftime_mdY(RunDay), strftime_mdY(RunDay), RunDay, "program")
    ELSE NewCall(FileOf(p), StepOrder[k], DefaultRetries, DefaultFromDate, None,
                 RunDay, "program")

RunInit ==
  /\ prog \in {"day", "deep"}
  /\ pc = "idle"
  /\ page_index = 1
  /\ row_idx = 0
  /\ consecutive_misses = 0
  /\ page_records = << >>
  /\ all_records = << >>
  /\ num_rows = 0
  /\ frameFresh = FALSE
  /\ view = "other"
  /\ shownPage = 1
  /\ nRows \in 0..MaxRows
  /\ sitePages \in 1..MaxSitePages
  /\ faults = 0
  /\ hist = HistInit
  /\ fw = NoWait
  /\ run = [ pc |-> "steps", call |-> StepCall(prog, 1),
             steps |-> << "goto_login" >>, submit |-> "none", dumps |-> 0,
             stepDumps |-> 0, exported |-> FALSE, handed |-> << >>,
             failed |-> "none",
             outcome |-> "running", closed |-> 0 ]

\* main.py:1146-1148, testing.py:1170-1173  a step returned: the next step
RunNextStep ==
  /\ run.pc = "steps"
  /\ run.call.result = "returned"
  /\ run' = [ run EXCEPT !.call = StepCall(prog, Len(run.steps) + 1),
                         !.steps = Append(@, StepOrder[Len(run.steps) + 1]),
                         !.stepDumps = @ + run.call.dumps ]
  /\ UNCHANGED << walk, fw >>

\* main.py:906-914: click_search_button returned; scrape_single_day returns
\* the empty list on False and walks the results on True.
\* testing.py:1174-1177: the value returned is not looked at and the walk of
\* the results is started; after False the results may be displayed or not.
RunAfterSubmit ==
  /\ run.pc = "steps"
  /\ run.call.result \in {"True", "False"}
  /\ IF prog = "day" /\ run.call.result = "False"
       THEN /\ pc' = "returned"
            /\ view' = view
            /\ run' = [ run EXCEPT !.pc = "walk", !.submit = run.call.result,
                                   !.call = NoCall,
                                   !.stepDumps = @ + run.call.dumps ]
       ELSE /\ pc' = IF prog = "day" THEN "wait_results" ELSE "d_collect"
            /\ view' \in (IF run.call.result = "True" THEN {"results"}
                                                     ELSE {"results", "other"})
            /\ run' = [ run EXCEPT !.pc = "walk", !.submit = run.call.result,
                                   !.steps = Append(@, "walk"),
                                   !.call = NoCall,
                                   !.stepDumps = @ + run.call.dumps ]
  /\ UNCHANGED << prog, page_index, row_idx, consecutive_misses, page_records,
                  all_records, num_rows, frameFresh, shownPage, nRows,
                  sitePages, faults, hist, fw >>

\* main.py:1151-1166, 1172-1180: the walk returned; the records, if any, go
\* to append_to_google_sheets.  testing.py:1153-1159, 1186-1187: the records
\* go to the JSON and XLSX writers.  The browser is closed.
RunExport ==
  /\ run.pc = "walk"
  /\ pc = "returned"
  /\ run' = [ run EXCEPT !.pc = "ended",
                         !.exported = (prog = "deep" \/ all_records # << >>),
                         !.handed = all_records,
                         !.closed = @ + 1,
                         !.outcome = "completed" ]
  /\ UNCHANGED << walk, fw >>

\* the failed run ended with the browser left open
RunFail_Open ==
  /\ \/ run.pc = "steps" /\ run.call.result = "raised"
     \/ run.pc = "walk" /\ pc = "raised"
  /\ run' = [ run EXCEPT !.pc = "ended",
                         !.failed = IF run.pc = "steps" THEN run.call.fn
                                                        ELSE "walk",
                         !.call = NoCall,
                         !.outcome = IF prog = "deep" THEN "exception"
                                                      ELSE "completed" ]
  /\ UNCHANGED << walk, fw >>

\* main.py:1168-1180: an exception of a step or of the walk is printed, the
\* browser is closed and main returns.  testing.py:1178-1187: a dump is
\* attempted, the exception is raised again and the browser is closed.
RunFail ==
  /\ \/ run.pc = "steps" /\ run.call.result = "raised"
     \/ run.pc = "walk" /\ pc = "raised"
  /\ run' = [ run EXCEPT !.pc = "ended",
                         !.failed = IF run.pc = "steps" THEN run.call.fn
                                                        ELSE "walk",
                         !.call = NoCall,
                         !.dumps = IF prog = "deep" THEN @ + 1 ELSE @,
                         !.stepDumps = IF run.pc = "steps"
                                         THEN @ + run.call.dumps ELSE @,
                         !.closed = @ + 1,
                         !.outcome = IF prog = "deep" THEN "exception"
                                                      ELSE "completed" ]
  /\ UNCHANGED << walk, fw >>

RunNext ==
  \/ CallAttempt
  \/ RunNextStep
  \/ RunAfterSubmit
  \/ DayNext
  \/ DeepNext
  \/ RunExport
  \/ RunFail

SpecRun == RunInit /\ [][RunNext]_vars

\* the runs of main.py alone
DayRunInit == RunInit /\ prog = "day"

DayRunNext ==
  \/ CallAttempt
  \/ RunNextStep
  \/ RunAfterSubmit
  \/ DayNext
  \/ RunExport
  \/ RunFail

SpecDayRun == DayRunInit /\ [][DayRunNext]_vars

(***************************************************************************)
(* The run from the launch of the browser on, on a small site: the context *)
(* and the page are made (main.py:1136-1142, testing.py:1165-1168), then   *)
(* the run goes as above; the export may fail.  run.closed counts the      *)
(* closings of the browser: by browser.close(), or, when that was not      *)
(* reached, by the exit of `async with async_playwright()`, which stops    *)
(* the driver and with it the browser it launched.                         *)
(***************************************************************************)
LaunchedInit ==
  /\ prog \in {"day", "deep"}
  /\ pc = "idle"
  /\ page_index = 1
  /\ row_idx = 0
  /\ consecutive_misses = 0
  /\ page_records = << >>
  /\ all_records = << >>
  /\ num_rows = 0
  /\ frameFresh = FALSE
  /\ view = "other"
  /\ shownPage = 1
  /\ nRows \in 0..1
  /\ sitePages = 1
  /\ faults = 0
  /\ hist = HistInit
  /\ fw = NoWait
  /\ run = [ pc |-> "setup", call |-> NoCall,
             steps |-> << >>, submit |-> "none", dumps |-> 0,
             stepDumps |-> 0, exported |-> FALSE, handed |-> << >>,
             failed |-> "none",
             outcome |-> "running", closed |-> 0 ]

\* main.py:1136-1147, 1176-1178; testing.py:1165-1170  new_context and
\* new_page: the steps start, or the exception leaves the `async with`
\* block, before the try whose finally closes the browser
RunSetup ==
  /\ run.pc = "setup"
  /\ \/ run' = [ run EXCEPT !.pc = "steps", !.call = StepCall(prog, 1),
                            !.steps = << "goto_login" >> ]
     \/ run' = [ run EXCEPT !.pc = "ended", !.failed = "setup",
                            !.closed = @ + 1,
                            !.outcome = IF prog = "deep" THEN "exception"
                                                         ELSE "completed" ]
  /\ UNCHANGED << walk, fw >>

\* main.py:1158-1164, 1172-1174: append_to_google_sheets appended nothing;
\* "FAILED" is printed and the browser is closed.  testing.py:1153-1159,
\* 1178-1187: a writer raises; a dump is attempted, the exception is raised
\* again and the browser is closed.
RunExportFail ==
  /\ run.pc = "walk"
  /\ pc = "returned"
  /\ prog = "deep" \/ all_records # << >>
  /\ run' = [ run EXCEPT !.pc = "ended",
                         !.exported = TRUE,
                         !.handed = all_records,
                         !.failed = "export",
                         !.dumps = IF prog = "deep" THEN @ + 1 ELSE @,
                         !.closed = @ + 1,
                         !.outcome = IF prog = "deep" THEN "exception"
                                                      ELSE "completed" ]
  /\ UNCHANGED << walk, fw >>

LaunchedNext ==
  \/ RunSetup
  \/ CallAttempt
  \/ RunNextStep
  \/ RunAfterSubmit
  \/ DayNext
  \/ DeepNext
  \/ RunExport
  \/ RunExportFail
  \/ RunFail

SpecLaunched == LaunchedInit /\ [][LaunchedNext]_vars

(***************************************************************************)
(* main.py extract_decedent_info_atomic (541-593) and testing.py           *)
(* extract_decedent_info (751-799): the decedent's address.                *)
(* run.cells is what the detail view holds in the cells of the street,     *)
(* the city, the state and the ZIP, and in the cell the fallback of        *)
(* main.py reads the ZIP from; Missing is a cell that is not there.        *)
(*   run.parts   the four fragments the function has read                  *)
(*   run.result  the decedent_address it returns                           *)
(***************************************************************************)
Missing == "(missing)"

StreetCells == { Missing, " ", "123 Main St", " 123 Main St " }
CityCells == { Missing, " ", "Media", "Media " }
StateCells == { Missing, " ", "PA", " PA" }
ZipCells == { Missing, " ", "19063", " 19063 " }
ZipFallbackCells == { Missing, "19063" }

\* str.strip() on the texts of the cells
strip(t) ==
  CASE t = " " -> ""
    [] t = " 123 Main St " -> "123 Main St"
    [] t = "Media " -> "Media"
    [] t = " PA" -> "PA"
    [] t = " 19063 " -> "19063"
    [] OTHER -> t

\* main.py:547-551 (and 556-560): the cell's text stripped, "" when the
\* cell cannot be read; testing.py:755-761 (and 764-770)
CellText(raw) == IF raw = Missing THEN "" ELSE strip(raw)

\* main.py:563-582  state and ZIP are read in one try block, the state
\* first; the ZIP is read from the fallback cell when it is still empty
MainStateZip(cells) ==
  LET state == CellText(cells.state)
      zipc == IF cells.state = Missing THEN "" ELSE CellText(cells.zip)
  IN  << state, IF zipc = "" THEN CellText(cells.zip2) ELSE zipc >>

\* testing.py:773-786  state and ZIP are cells of the table in the state's row
DeepStateZip(cells) ==
  IF cells.state = Missing THEN << "", "" >>
  ELSE << CellText(cells.state), CellText(cells.zip) >>

\* main.py:542-582, testing.py:752-786  the fragments read
AddressFragments(file, cells) ==
  << CellText(cells.street), CellText(cells.city) >>
    \o (IF file = "main" THEN MainStateZip(cells) ELSE DeepStateZip(cells))

\* every fragment kept, the empty ones too
NonEmptyParts_All(parts) == parts

\* main.py:585  [p for p in [addr, city, state, zipc] if p]; testing.py:789-792
NonEmptyParts(parts) == SelectSeq(parts, LAMBDA p : p # "")

\* str.join
RECURSIVE Join(_, _)
Join(sep, parts) ==
  IF parts = << >> THEN ""
  ELSE IF Len(parts) = 1 THEN parts[1]
  ELSE parts[1] \o sep \o Join(sep, Tail(parts))

\* main.py:585-586, testing.py:789-794  decedent_address
JoinAddress(fragments) ==
  LET parts == NonEmptyParts(fragments)
  IN  IF parts # << >> THEN Join(", ", parts) ELSE ""

AddressCalls ==
  { [ pc |-> "address", file |-> file,
      cells |-> [ street |-> s, city |-> c, state |-> st, zip |-> z, zip2 |-> z2 ],
      parts |-> << >>, result |-> None ] :
      file \in {"main", "testing"}, s \in StreetCells, c \in CityCells,
      st \in StateCells, z \in ZipCells, z2 \in ZipFallbackCells }

AddressInit ==
  /\ WalkIdle
  /\ fw = NoWait
  /\ run \in AddressCalls

\* main.py:541-593, testing.py:751-799  read the fragments, assemble the address
ExtractAddress ==
  /\ run.pc = "address"
  /\ run.result = None
  /\ LET fragments == AddressFragments(run.file, run.cells)
     IN  run' = [ run EXCEPT !.parts = fragments,
                             !.result = JoinAddress(fragments) ]
  /\ UNCHANGED << walk, fw >>

SpecAddress == AddressInit /\ [][ExtractAddress]_vars

(***************************************************************************)
(* main.py wait_for_frame_by_name (304-316) and                            *)
(* wait_for_frame_by_url_fragment (289-302) on a frame tree.               *)
(* A frame has an identity, a name, a URL and a parent; fw.tree is         *)
(* page.frames, the frames of the tab in the order of the tree.  A call    *)
(* that meets no change of the tree returns the first frame its scan       *)
(* matches, or raises when there is none or its timeout is not positive.   *)
(*   fw.path     the name looked for, or the names of a chain (the frame   *)
(*               found for a name is the parent_frame of the next call),   *)
(*               or the URL fragment looked for                            *)
(*   fw.calls    what the resolutions made so far returned, and whether    *)
(*               the tree changed since the resolution before              *)
(*   fw.changed  the tree changed since the last resolution                *)
(***************************************************************************)
MaxCalls == 3

Frame(id, name, url, parent) ==
  [ id |-> id, name |-> name, url |-> url, parent |-> parent ]

\* no frame: the call raised PlaywrightTimeoutError
NoFrame == Frame(-1, "(none)", "", -1)

TopFrame == Frame(0, "", "index.jsp", -1)
BodyFrame == Frame(1, "bodyframe", "body.jsp", 0)

FrameTrees ==
  { << TopFrame >>,
    << TopFrame, BodyFrame, Frame(2, "dynSearchFrame", "dynCriteria.do", 1) >>,
    << TopFrame, BodyFrame,
       Frame(3, "resultFrame", "SearchResultsView.jsp?page=1", 1),
       Frame(4, "resultListFrame", "list.jsp", 3) >>,
    << TopFrame, BodyFrame,
       Frame(3, "resultFrame", "SearchResultsView.jsp?page=1", 1),
       Frame(5, "resultFrame", "SearchResultsView.jsp?page=2", 1) >>,
    << TopFrame, Frame(6, "dynSearchFrame", "blank.jsp", 0), BodyFrame,
       Frame(2, "dynSearchFrame", "dynCriteria.do", 1) >> }

FramePaths ==
  { [ kind |-> "name", path |-> << "bodyframe" >> ],
    [ kind |-> "name", path |-> << "resultFrame" >> ],
    [ kind |-> "name", path |-> << "dynSearchFrame" >> ],
    [ kind |-> "name", path |-> << "bodyframe", "dynSearchFrame" >> ],
    [ kind |-> "url", path |-> << "SearchResultsView.jsp" >> ],
    [ kind |-> "url", path |-> << "dynCriteria.do" >> ] }

\* url_fragment in f.url
UrlContains(url, fragment) ==
  \/ fragment = "SearchResultsView.jsp"
       /\ url \in { "SearchResultsView.jsp?page=1", "SearchResultsView.jsp?page=2" }
  \/ fragment = "dynCriteria.do" /\ url = "dynCriteria.do"

\* main.py:309  parent_frame.child_frames if parent_frame else self.page.frames
FramesOf(tree, parent) ==
  IF parent = NoFrame THEN tree
  ELSE SelectSeq(tree, LAMBDA f : f.parent = parent.id)

\* main.py:311 frame.name == name; main.py:295 f.url and url_fragment in f.url
FrameMatches(f, kind, v) ==
  IF kind = "name" THEN f.name = v ELSE f.url # "" /\ UrlContains(f.url, v)

\* the scan returning the last frame that matches
LastMatch(frames, kind, v) ==
  LET hits == SelectSeq(frames, LAMBDA f : FrameMatches(f, kind, v))
  IN  IF hits = << >> THEN NoFrame ELSE hits[Len(hits)]

\* main.py:294-298, 310-314  the scan: the first frame that matches
FirstMatch(frames, kind, v) ==
  LET hits == SelectSeq(frames, LAMBDA f : FrameMatches(f, kind, v))
  IN  IF hits = << >> THEN NoFrame ELSE hits[1]

\* main.py:289-316  one call on a tree that does not change during the call
WaitForFrame(tree, kind, v, timeout, parent) ==
  IF timeout > 0 THEN FirstMatch(FramesOf(tree, parent), kind, v) ELSE NoFrame

\* main.py:492-493  the hops 1..n of a path, each under the frame found by
\* the hop before; a hop that raises ends the resolution
RECURSIVE ResolvePath(_, _, _, _, _)
ResolvePath(tree, kind, path, timeout, n) ==
  IF n = 1 THEN WaitForFrame(tree, kind, path[1], timeout, NoFrame)
  ELSE LET parent == ResolvePath(tree, kind, path, timeout, n - 1)
       IN  IF parent = NoFrame THEN NoFrame
           ELSE WaitForFrame(tree, kind, path[n], timeout, parent)

ResolveInit ==
  /\ WalkIdle
  /\ run = NoRun
  /\ \E tree \in FrameTrees, q \in FramePaths, timeout \in {0, 5} :
       fw = [ fn |-> "resolve", kind |-> q.kind, path |-> q.path,
              timeout |-> timeout, tree |-> tree, calls |-> << >>,
              changed |-> FALSE ]

\* one resolution of the path
ResolveFrame ==
  /\ fw.fn = "resolve"
  /\ Len(fw.calls) < MaxCalls
  /\ fw' = [ fw EXCEPT
       !.calls = Append(@, [ frame |-> ResolvePath(fw.tree, fw.kind, fw.path,
                                                   fw.timeout, Len(fw.path)),
                             changed |-> fw.changed ]),
       !.changed = FALSE ]
  /\ UNCHANGED << walk, run >>

\* the site: a navigation replaces the frames of the tab
TreeChange ==
  /\ fw.fn = "resolve"
  /\ ~fw.changed
  /\ Len(fw.calls) < MaxCalls
  /\ \E tree \in FrameTrees \ { fw.tree } :
       fw' = [ fw EXCEPT !.tree = tree, !.changed = TRUE ]
  /\ UNCHANGED << walk, run >>

ResolveNext == ResolveFrame \/ TreeChange

SpecResolve == ResolveInit /\ [][ResolveNext]_vars

(***************************************************************************)
(* main.py get_last_scraped_date (63-118) and the scrape date of main      *)
(* (1098-1115).  A spreadsheet is the sequence of its sheets; a sheet has  *)
(* a title and the texts of its column B from row 2 on.                    *)
(*   run.unread   the sheets whose values could not be read                *)
(*   run.last     what get_last_scraped_date returned (NoDay for None)     *)
(*   run.scrape   the date main searches next                              *)
(***************************************************************************)
\* Python's None where a date is expected
NoDay == << 0, 0, 0 >>

Sheet(title, values) == [ title |-> title, values |-> values ]

SheetPool ==
  { Sheet("2025-01", << "01/15/2025", "2025-01-20" >>),
    Sheet("2025-03", << "03/10/25", "n/a", "03/09/2025" >>),
    Sheet("2025-03", << >>),
    Sheet("Unknown", << "n/a" >>),
    Sheet("Sheet1", << "12/31/2025" >>) }

Spreadsheets ==
  { << >> } \cup { << a >> : a \in SheetPool }
    \cup { << a, b >> : a \in SheetPool, b \in SheetPool }

\* main.py:77  any(char.isdigit() for char in sheet_name)
HasDigit(title) == title \in { "2025-01", "2025-02", "2025-03", "Sheet1" }

\* the days of January to March 2025
QuarterDays ==
  { << 2025, m, d >> : m \in 1..3, d \in 1..31 } \ 
    { << 2025, 2, 29 >>, << 2025, 2, 30 >>, << 2025, 2, 31 >> }

\* datetime.strptime(text, fmt).date(), NoDay for ValueError
strptime(text, fmt) ==
  CASE fmt = "%Y-%m-%d" /\ text = "2025-01-20" -> << 2025, 1, 20 >>
    [] fmt = "%m/%d/%Y" /\ text = "01/15/2025" -> << 2025, 1, 15 >>
    [] fmt = "%m/%d/%Y" /\ text = "03/09/2025" -> << 2025, 3, 9 >>
    [] fmt = "%m/%d/%Y" /\ text = "12/31/2025" -> << 2025, 12, 31 >>
    [] fmt = "%m/%d/%y" /\ text = "03/10/25" -> << 2025, 3, 10 >>
    [] fmt = "%m/%d/%Y" /\ (\E d \in QuarterDays : strftime_mdY(d) = text) ->
         CHOOSE d \in QuarterDays : strftime_mdY(d) = text
    [] OTHER -> NoDay

\* main.py:94-102  the first format of the list that parses the text
RECURSIVE FirstParse(_, _)
FirstParse(text, fmts) ==
  IF fmts = << >> THEN NoDay
  ELSE IF strptime(text, Head(fmts)) # NoDay THEN strptime(text, Head(fmts))
  ELSE FirstParse(text, Tail(fmts))

LastDateFormats == << "%Y-%m-%d", "%m/%d/%Y", "%m/%d/%y" >>

\* main.py:97-98  if max_date is None or date_obj > max_date
LaterOf(max_date, date_obj) ==
  IF date_obj = NoDay THEN max_date
  ELSE IF max_date = NoDay \/ ~DayLeq(date_obj, max_date) THEN date_obj
  ELSE max_date

\* main.py:93-102  max_date after the first n values of a sheet
RECURSIVE MaxOfValues(_, _, _)
MaxOfValues(max_date, values, n) ==
  IF n = 0 THEN max_date
  ELSE LaterOf(MaxOfValues(max_date, values, n - 1),
               FirstParse(values[n], LastDateFormats))

\* main.py:74-106  max_date after the first n sheets; a sheet without a
\* digit in its title, or whose values cannot be read, is passed over
RECURSIVE MaxOfSheets(_, _, _)
MaxOfSheets(sheets, failed, n) ==
  IF n = 0 THEN NoDay
  ELSE LET before == MaxOfSheets(sheets, failed, n - 1)
       IN  IF ~HasDigit(sheets[n].title) \/ n \in failed THEN before
           ELSE MaxOfValues(before, sheets[n].values, Len(sheets[n].values))

IsLeap(y) == (y % 4 = 0 /\ y % 100 # 0) \/ y % 400 = 0

MonthLen(y, m) ==
  CASE m \in {4, 6, 9, 11} -> 30
    [] m = 2 -> IF IsLeap(y) THEN 29 ELSE 28
    [] OTHER -> 31

\* main.py:1103  last_date + timedelta(days=1)
NextDay(d) ==
  IF d[3] < MonthLen(d[1], d[2]) THEN << d[1], d[2], d[3] + 1 >>
  ELSE IF d[2] < 12 THEN << d[1], d[2] + 1, 1 >>
  ELSE << d[1] + 1, 1, 1 >>

PrevDay(d) ==
  IF d[3] > 1 THEN << d[1], d[2], d[3] - 1 >>
  ELSE IF d[2] > 1 THEN << d[1], d[2] - 1, MonthLen(d[1], d[2] - 1) >>
  ELSE << d[1] - 1, 12, 31 >>

\* main.py:1108  datetime.now().date() - timedelta(days=30)
RECURSIVE MinusDays(_, _)
MinusDays(d, n) == IF n = 0 THEN d ELSE MinusDays(PrevDay(d), n - 1)

LastDateInit ==
  /\ WalkIdle
  /\ fw = NoWait
  /\ \E sheets \in Spreadsheets, today \in { << 2025, 3, 9 >>, << 2025, 12, 31 >> } :
       run = [ pc |-> "last_date", sheets |-> sheets, today |-> today,
               unread |-> {}, listed |-> TRUE, last |-> NoDay,
               scrape |-> NoDay, skipped |-> FALSE ]

\* main.py:63-118  get_last_scraped_date; reading the list of the sheets, or
\* the values of a sheet, may fail
GetLastScrapedDate ==
  /\ run.pc = "last_date"
  /\ \/ \E failed \in SUBSET (1..Len(run.sheets)) :
          /\ Cardinality(failed) <= MaxFaults
          /\ run' = [ run EXCEPT !.pc = "scrape_date", !.unread = failed,
                        !.last = MaxOfSheets(run.sheets, failed, Len(run.sheets)) ]
     \/ run' = [ run EXCEPT !.pc = "scrape_date", !.listed = FALSE,
                            !.last = NoDay ]                \* main.py:116-118
  /\ UNCHANGED << walk, fw >>

\* main.py:1102-1109  the date to search
ScrapeDate(last_date, today) ==
  IF last_date # NoDay THEN NextDay(last_date) ELSE MinusDays(today, 30)

\* the test that lets the day after today through
InFuture_Lax(scrape_date, today) == ~DayLeq(scrape_date, NextDay(today))

\* main.py:1113  if scrape_date > today
InFuture(scrape_date, today) == ~DayLeq(scrape_date, today)

\* main.py:1098-1115  the date to search
DetermineScrapeDate ==
  /\ run.pc = "scrape_date"
  /\ LET scrape_date == ScrapeDate(run.last, run.today)
     IN  run' = [ run EXCEPT !.pc = "dated", !.scrape = scrape_date,
                             !.skipped = InFuture(scrape_date, run.today) ]
  /\ UNCHANGED << walk, fw >>

LastDateNext == GetLastScrapedDate \/ DetermineScrapeDate

SpecLastDate == LastDateInit /\ [][LastDateNext]_vars

(***************************************************************************)
(* main.py append_to_google_sheets (120-187) and testing.py                *)
(* write_monthwise_xlsx (1099-1146).  A record is its position in the      *)
(* input and its filing date; by_month is the sequence of the groups in    *)
(* the order their keys were first met.                                    *)
(*   run.groups    by_month                                                *)
(*   run.appends   main.py: for every group taken so far, whether its      *)
(*                 append succeeded                                        *)
(*   run.returned  main.py: what the function returned, -1 before it did   *)
(*   run.written   testing.py: the sheets of the workbook saved             *)
(***************************************************************************)
MaxRecords == 3

FilingDateTexts == { "01/15/2025", "03/10/25", "2025-01-20", "n/a", "" }

\* the input lists
RECURSIVE RecordLists(_)
RecordLists(n) ==
  IF n = 0 THEN { << >> }
  ELSE LET shorter == RecordLists(n - 1)
       IN  shorter \cup
             { Append(l, [ no |-> Len(l) + 1, filing_date |-> t ]) :
                 l \in { x \in shorter : Len(x) = n - 1 }, t \in FilingDateTexts }

\* main.py:135, testing.py:1121-1126  the formats tried, in their order
ExportFormats(file) ==
  IF file = "main" THEN << "%m/%d/%Y", "%m/%d/%y", "%Y-%m-%d" >>
  ELSE << "%m/%d/%Y", "%m/%d/%y" >>

\* main.py:138, testing.py:1122  dt.strftime("%Y-%m")
strftime_Ym(d) == YearText(d[1]) \o "-" \o TwoDigits[d[2]]

\* main.py:131-141, testing.py:1117-1129  month_key of a record
MonthKey(file, record) ==
  LET dt == FirstParse(record.filing_date, ExportFormats(file))
  IN  IF dt = NoDay THEN "Unknown" ELSE strftime_Ym(dt)

\* the record put in front of its group
GroupInsert_Front(groups, key, record) ==
  IF \E i \in 1..Len(groups) : groups[i].key = key
    THEN [ i \in 1..Len(groups) |->
             IF groups[i].key = key
               THEN [ groups[i] EXCEPT !.records = << record >> \o @ ]
               ELSE groups[i] ]
    ELSE Append(groups, [ key |-> key, records |-> << record >> ])

\* main.py:143, testing.py:1130  by_month[month_key].append(record)
GroupInsert(groups, key, record) ==
  IF \E i \in 1..Len(groups) : groups[i].key = key
    THEN [ i \in 1..Len(groups) |->
             IF groups[i].key = key
               THEN [ groups[i] EXCEPT !.records = Append(@, record) ]
               ELSE groups[i] ]
    ELSE Append(groups, [ key |-> key, records |-> << record >> ])

\* main.py:129-143, testing.py:1115-1130  by_month after the first n records
RECURSIVE GroupByMonth(_, _, _)
GroupByMonth(file, records, n) ==
  IF n = 0 THEN << >>
  ELSE GroupInsert(GroupByMonth(file, records, n - 1),
                   MonthKey(file, records[n]), records[n])

\* testing.py:1134  sorted(by_month.keys())
SortedKeys == << "2025-01", "2025-03", "Unknown" >>

ExportInit ==
  /\ WalkIdle
  /\ fw = NoWait
  /\ \E file \in {"main", "testing"}, records \in RecordLists(MaxRecords) :
       run = [ pc |-> "export", file |-> file, records |-> records,
               at |-> "group", groups |-> << >>, appends |-> << >>,
               total_appended |-> 0, returned |-> -1, written |-> << >> ]

\* main.py:122-143, testing.py:1110-1130  group the records
ExportGroup ==
  /\ run.pc = "export" /\ run.at = "group"
  /\ IF run.file = "main" /\ run.records = << >>
       THEN run' = [ run EXCEPT !.at = "done", !.returned = 0 ]  \* main.py:122-124
       ELSE run' = [ run EXCEPT
                       !.at = IF run.file = "main" THEN "append" ELSE "write",
                       !.groups = GroupByMonth(run.file, run.records,
                                               Len(run.records)) ]
  /\ UNCHANGED << walk, fw >>

\* main.py:148-187  one round of the loop over the groups: the append of
\* the group succeeds or raises; after the last group, return total_appended
ExportAppend ==
  /\ run.pc = "export" /\ run.at = "append"
  /\ IF Len(run.appends) < Len(run.groups)
       THEN \E ok \in BOOLEAN :
              LET month_records == run.groups[Len(run.appends) + 1].records
              IN  run' = [ run EXCEPT
                             !.appends = Append(@, ok),
                             !.total_appended =
                                IF ok THEN @ + Len(month_records) ELSE @ ]
       ELSE run' = [ run EXCEPT !.at = "done", !.returned = run.total_appended ]
  /\ UNCHANGED << walk, fw >>

\* testing.py:1132-1146  one sheet for every month, in the order of the keys
ExportWrite ==
  /\ run.pc = "export" /\ run.at = "write"
  /\ run' = [ run EXCEPT
       !.at = "done",
       !.written = SelectSeq(
          [ k \in 1..Len(SortedKeys) |->
              LET hits == SelectSeq(run.groups, LAMBDA g : g.key = SortedKeys[k])
              IN  IF hits = << >> THEN [ key |-> "", records |-> << >> ]
                                  ELSE hits[1] ],
          LAMBDA g : g.key # "") ]
  /\ UNCHANGED << walk, fw >>

ExportNext == ExportGroup \/ ExportAppend \/ ExportWrite

SpecExport == ExportInit /\ [][ExportNext]_vars

(***************************************************************************)
(* main.py main (1079-1180), run day after day on one spreadsheet.         *)
(*   run.today     the clock                                               *)
(*   run.sheets    the spreadsheet: its sheets, with the Filing Date cells *)
(*                 of each                                                 *)
(*   run.at        "idle" between two runs, "launched" once the browser    *)
(*                 was launched                                            *)
(*   run.scrape    scrape_date of the run in progress or last started      *)
(*   run.prev      scrape_date of the last run that searched, NoDay if     *)
(*                 none did                                                *)
(*   run.runs, run.launches   runs started, browsers launched              *)
(*   run.appended  the dates searched by the runs that appended records    *)
(*   run.again     a run searched a date of run.appended                   *)
(***************************************************************************)
MaxRuns == 3
MaxDays == 2
StartDay == << 2025, 2, 27 >>

RECURSIVE PlusDays(_, _)
PlusDays(d, n) == IF n = 0 THEN d ELSE NextDay(PlusDays(d, n - 1))

\* the spreadsheet when the first run starts: empty, or filled up to the
\* day before
FirstSpreadsheets ==
  { << >>,
    << Sheet(strftime_Ym(PrevDay(StartDay)),
             << strftime_mdY(PrevDay(StartDay)) >>) >> }

\* what a search of a date can give: no record, or records whose
\* filing_date is the date searched, or records whose filing_date is empty
FoundRecords(scrape_date) ==
  { << >>,
    << [ no |-> 1, filing_date |-> strftime_mdY(scrape_date) ] >>,
    << [ no |-> 1, filing_date |-> "" ] >> }

\* main.py:152-178  ensure_sheet_exists, then append the rows to the sheet
AppendRows(sheets, title, month_records) ==
  LET cells == [ i \in 1..Len(month_records) |-> month_records[i].filing_date ]
  IN  IF \E i \in 1..Len(sheets) : sheets[i].title = title
        THEN [ i \in 1..Len(sheets) |->
                 IF sheets[i].title = title
                   THEN Sheet(title, sheets[i].values \o cells)
                   ELSE sheets[i] ]
        ELSE Append(sheets, Sheet(title, cells))

\* main.py:148-187  the groups appended one after the other
RECURSIVE AppendGroups(_, _, _)
AppendGroups(sheets, groups, n) ==
  IF n = 0 THEN sheets
  ELSE AppendRows(AppendGroups(sheets, groups, n - 1),
                  groups[n].key, groups[n].records)

DailyInit ==
  /\ WalkIdle
  /\ fw = NoWait
  /\ \E sheets \in FirstSpreadsheets :
       run = [ pc |-> "daily", at |-> "idle", today |-> StartDay,
               sheets |-> sheets, scrape |-> NoDay, prev |-> NoDay,
               runs |-> 0, launches |-> 0, appended |-> {}, again |-> FALSE ]

\* main.py:1098-1134  read the last date, pick the date to search, return
\* if it is in the future, else launch the browser
DailyStart ==
  /\ run.pc = "daily" /\ run.at = "idle" /\ run.runs < MaxRuns
  /\ \E last_date \in
          { MaxOfSheets(run.sheets, failed, Len(run.sheets)) :
              failed \in { f \in SUBSET (1..Len(run.sheets)) :
                             Cardinality(f) <= MaxFaults } }
            \cup { NoDay } :
       LET scrape_date == ScrapeDate(last_date, run.today)
       IN  run' = [ run EXCEPT
             !.runs = @ + 1,
             !.scrape = scrape_date,
             !.at = IF InFuture(scrape_date, run.today) THEN "idle"
                                                        ELSE "launched",
             !.launches = IF InFuture(scrape_date, run.today) THEN @ ELSE @ + 1 ]
  /\ UNCHANGED << walk, fw >>

\* main.py:1144-1174  the navigation and scrape_single_day, which raise or
\* give the records found; then append_to_google_sheets, which appends or
\* fails; then the browser is closed
DailyScrape ==
  /\ run.pc = "daily" /\ run.at = "launched"
  /\ \E new_records \in FoundRecords(run.scrape), raised \in BOOLEAN,
        append_ok \in BOOLEAN :
       LET groups == GroupByMonth("main", new_records, Len(new_records))
           appends == ~raised /\ new_records # << >> /\ append_ok
       IN  run' = [ run EXCEPT
             !.at = "idle",
             !.prev = run.scrape,
             !.again = ~raised /\ run.scrape \in run.appended,
             !.sheets = IF appends THEN AppendGroups(@, groups, Len(groups))
                                   ELSE @,
             !.appended = IF appends THEN @ \cup { run.scrape } ELSE @ ]
  /\ UNCHANGED << walk, fw >>

\* midnight passes between two runs
DailyMidnight ==
  /\ run.pc = "daily" /\ run.at = "idle"
  /\ run.today # PlusDays(StartDay, MaxDays)
  /\ run' = [ run EXCEPT !.today = NextDay(@) ]
  /\ UNCHANGED << walk, fw >>

DailyNext == DailyStart \/ DailyScrape \/ DailyMidnight

SpecDaily == DailyInit /\ [][DailyNext]_vars

(***************************************************************************)
(* main.py click_back_to_results (715-799) and testing.py                  *)
(* click_back_to_results (809-915): one call.                              *)
(*   run.controls   the site: the strategies that find the back control    *)
(*   run.kept       the site: the frames of the detail view hold a frame   *)
(*                  whose URL contains SearchResultsView.jsp               *)
(*   run.tried      the strategies tried in the attempt in progress        *)
(*   run.clicked    the local variable clicked                             *)
(*   run.activated  a back control was activated in this call              *)
(*   run.found      the verification of the attempt found the results view *)
(***************************************************************************)
back_retries == 2

\* main.py:742-777, testing.py:840-890  the strategies in their order
BackStrategies == << "text", "onclick", "alt", "script" >>

\* main.py:748, testing.py:842-858  resnavframe.click(sel): clicks the
\* control, or raises when the selector finds none within its timeout
SelectorOutcomes(c, strategy) ==
  IF strategy \in c.controls THEN {"clicked"} ELSE {"raise"}

\* main.py:757-777, testing.py:866-890  resnavframe.evaluate(script): the
\* script activates the back control and returns true, or finds no element
\* and returns false, or the call raises; the script of testing.py takes
\* any link whose href holds "#" as well ("other")
ScriptOutcomes(c) ==
  (IF "script" \in c.controls THEN {"true"} ELSE {"false"})
    \cup {"raise"}
    \cup (IF c.file = "testing" THEN {"other"} ELSE {})

\* main.py:774, testing.py:888  clicked = True once evaluate() has returned
ScriptClicked(o) == o # "raise"

\* the call after the attempt in progress is over without a return
BackNextAttempt(c) ==
  IF c.attempt + 1 < c.retries
    THEN [ c EXCEPT !.attempt = @ + 1, !.at = "nav", !.tried = << >>,
                    !.clicked = FALSE ]
    ELSE [ c EXCEPT !.at = "done", !.result = "False" ]  \* main.py:798-799

BackInit ==
  /\ WalkIdle
  /\ fw = NoWait
  /\ \E file \in {"main", "testing"}, controls \in SUBSET { "text", "onclick", "alt", "script" },
        kept \in BOOLEAN, retries \in 1..back_retries :
       run = [ pc |-> "back", file |-> file, controls |-> controls,
               kept |-> kept, retries |-> retries, attempt |-> 0, at |-> "nav",
               tried |-> << >>, clicked |-> FALSE, activated |-> FALSE,
               found |-> FALSE, result |-> "running" ]

\* main.py:719-739, testing.py:814-835  find resnavframe; an exception ends
\* the attempt (main.py:792-796)
BackFindNav ==
  /\ run.pc = "back" /\ run.at = "nav"
  /\ \/ run' = [ run EXCEPT !.at = "try" ]
     \/ run' = BackNextAttempt(run)
  /\ UNCHANGED << walk, fw >>

\* main.py:741-777, testing.py:838-890  the next strategy
BackTry ==
  /\ run.pc = "back" /\ run.at = "try"
  /\ LET strategy == BackStrategies[Len(run.tried) + 1]
         c == [ run EXCEPT !.tried = Append(@, strategy) ]
     IN  IF strategy # "script"
           THEN \E o \in SelectorOutcomes(run, strategy) :
                  run' = IF o = "clicked"
                           THEN [ c EXCEPT !.clicked = TRUE, !.activated = TRUE,
                                           !.at = "verify" ]
                           ELSE c
           ELSE \E o \in ScriptOutcomes(run) :
                  run' = IF ScriptClicked(o)
                           THEN [ c EXCEPT !.clicked = TRUE,
                                           !.activated = @ \/ (o = "true"),
                                           !.at = "verify" ]
                           ELSE BackNextAttempt(c)       \* main.py:789-790
  /\ UNCHANGED << walk, fw >>

\* main.py:779-788, testing.py:892-904  look for the results view: it is
\* there when the back control was activated, unless the site is slow, and
\* when the site keeps its frame
BackVerify ==
  /\ run.pc = "back" /\ run.at = "verify"
  /\ \E found \in (IF run.activated THEN BOOLEAN ELSE { run.kept }) :
       run' = IF found
                THEN [ run EXCEPT !.at = "done", !.found = TRUE,
                                  !.result = "True" ]
                ELSE BackNextAttempt(run)
  /\ UNCHANGED << walk, fw >>

BackNext == BackFindNav \/ BackTry \/ BackVerify

SpecBack == BackInit /\ [][BackNext]_vars

(***************************************************************************)
(* main.py click_result_link_by_index (686-713) and testing.py             *)
(* click_result_link_by_index (322-335): one call.                         *)
(* run.links is the results list: the loadRecord links in the order of     *)
(* the document, each the number n of its id inst<n>, or NoId.             *)
(*   run.clicks    the positions of the links clicked with success         *)
(*   run.byIndex   the i-th link was looked for by position                *)
(***************************************************************************)
NoId == -1

LinkLists ==
  { << >>, << 0, 1, 2 >>, << 0, 2, 5 >>, << NoId, NoId >>, << 1, 0 >>,
    << 0, NoId, 1 >> }

ClickIndexes == 0..3

\* a.link#inst{index}: the position of the first link with that id, 0 for none
PositionOfId(links, index) ==
  IF \E p \in 1..Len(links) : links[p] = index
    THEN CHOOSE p \in 1..Len(links) :
           links[p] = index /\ \A q \in 1..(p - 1) : links[q] # index
    ELSE 0

ClickInit ==
  /\ WalkIdle
  /\ fw = NoWait
  /\ \E file \in {"main", "testing"}, links \in LinkLists, index \in ClickIndexes :
       run = [ pc |-> "click_link", file |-> file, links |-> links,
               index |-> index, at |-> "primary", clicks |-> << >>,
               byIndex |-> FALSE, result |-> "running" ]

\* main.py:691-699, testing.py:324-328  the link with the id: a click that
\* fails is caught in main.py and raises in testing.py; count() may raise
ClickById ==
  /\ run.pc = "click_link" /\ run.at = "primary"
  /\ LET p == PositionOfId(run.links, run.index)
     IN  IF p # 0
           THEN \E o \in {"ok", "fail"} \cup (IF run.file = "main" THEN {"raise"} ELSE {}) :
                  run' = CASE o = "ok" ->
                                [ run EXCEPT !.at = "done", !.result = "True",
                                             !.clicks = Append(@, p) ]
                           [] o = "fail" /\ run.file = "main" ->
                                [ run EXCEPT !.at = "fallback" ]
                           [] OTHER ->
                                [ run EXCEPT !.at = "done", !.result = "raised" ]
           ELSE run' = [ run EXCEPT !.at = "fallback" ]
  /\ UNCHANGED << walk, fw >>

\* main.py:701-713, testing.py:330-335  the index-th of the loadRecord links
ClickByPosition ==
  /\ run.pc = "click_link" /\ run.at = "fallback"
  /\ IF Len(run.links) > run.index
       THEN \E ok \in BOOLEAN :
              run' = IF ok
                       THEN [ run EXCEPT !.at = "done", !.result = "True",
                                         !.byIndex = TRUE,
                                         !.clicks = Append(@, run.index + 1) ]
                       ELSE [ run EXCEPT !.at = "done", !.byIndex = TRUE,
                                !.result = IF run.file = "main" THEN "False"
                                                                ELSE "raised" ]
       ELSE run' = [ run EXCEPT !.at = "done", !.result = "False" ]
  /\ UNCHANGED << walk, fw >>

ClickNext == ClickById \/ ClickByPosition

SpecClick == ClickInit /\ [][ClickNext]_vars

(***************************************************************************)
(* main.py extract_representatives_atomic (595-642) and testing.py         *)
(* extract_representatives (537-622) on the data rows of a tab.            *)
(*   run.rows    the texts of the rows tr.evenrow, tr.oddrow               *)
(*   run.header  testing.py: the tab has the Personal Representative       *)
(*               header, and the rows are those of the table under it      *)
(*   run.reps    the representatives returned                              *)
(***************************************************************************)
MaxRepRows == 3

RepRowTexts == { "", "DEE FOX", "ED GUY", "9 MAIN ST", "2 HILL RD" }

RECURSIVE RowLists(_)
RowLists(n) ==
  IF n = 0 THEN { << >> }
  ELSE LET shorter == RowLists(n - 1)
       IN  shorter \cup
             { Append(l, t) : l \in { x \in shorter : Len(x) = n - 1 },
                              t \in RepRowTexts }

\* testing.py:583-616  the fallback scan of all rows
FallbackReps(rows) ==
  LET s == FallbackScan(rows, Len(rows))
  IN  IF s.name # "" THEN Append(s.reps, Rep(s.name, s.address)) ELSE s.reps

\* testing.py:545-618  the header's table first, the fallback when it gave
\* no representative
DeepRepresentatives(header, rows) ==
  IF header /\ HeaderReps(rows) # << >> THEN HeaderReps(rows)
  ELSE FallbackReps(rows)

RepsInit ==
  /\ WalkIdle
  /\ fw = NoWait
  /\ \E rows \in RowLists(MaxRepRows) :
       \E c \in { [ file |-> "main", header |-> FALSE ],
                  [ file |-> "testing", header |-> FALSE ],
                  [ file |-> "testing", header |-> TRUE ] } :
         run = [ pc |-> "reps", file |-> c.file, header |-> c.header,
                 rows |-> rows, done |-> FALSE, reps |-> << >> ]

\* main.py:595-642, testing.py:537-622  extract the representatives
ExtractReps ==
  /\ run.pc = "reps" /\ ~run.done
  /\ run' = [ run EXCEPT
       !.done = TRUE,
       !.reps = IF run.file = "main"
                  THEN extract_representatives_atomic(run.rows)
                  ELSE DeepRepresentatives(run.header, run.rows) ]
  /\ UNCHANGED << walk, fw >>

SpecReps == RepsInit /\ [][ExtractReps]_vars

(***************************************************************************)
(* Properties of the walks.                                                *)
(***************************************************************************)

\* positions inside the row loop of a page
DayRowPcs == { "click", "wait_doc", "extract", "back" }
DeepRowPcs == { "d_click", "d_details", "d_extract", "d_back" }
RowPcs == DayRowPcs \cup DeepRowPcs

\* the records added so far, in the order they were added
EmittedRecs == [ i \in 1..Len(hist.emitted) |-> hist.emitted[i].rec ]

\* the records added for the last processed detail view
LastAdded ==
  SubSeq(hist.emitted, Len(hist.emitted) - hist.lastRow.added + 1,
         Len(hist.emitted))

\* a detail view has been processed
RowProcessed == hist.lastRow.page > 0

BaseFields ==
  { "case_file_no", "filing_date", "decedent_address", "caseFileId",
    "caseFileNum" }

SameBase(r1, r2) ==
  \A k \in BaseFields :
    /\ (k \in DOMAIN r1) = (k \in DOMAIN r2)
    /\ k \in DOMAIN r1 => r1[k] = r2[k]

\* C1: for every visited detail view whose representative extraction
\* yields no representative, exactly one record is added, and its
\* representative_name and representative_address are empty.
C1_ZeroRepsOneRecord ==
  (RowProcessed /\ hist.lastRow.reps = 0) =>
    /\ hist.lastRow.added = 1
    /\ LastAdded[1].rec.representative_name = ""
    /\ LastAdded[1].rec.representative_address = ""

\* C2: for every visited detail view whose representative extraction
\* yields N >= 1 representatives, exactly N records are added, one for
\* each representative, all with the same base fields.
C2_OneRecordPerRep ==
  (RowProcessed /\ hist.lastRow.reps >= 1) =>
    /\ hist.lastRow.added = hist.lastRow.reps
    /\ \A i, j \in 1..Len(LastAdded) : SameBase(LastAdded[i].rec, LastAdded[j].rec)

\* C3: in scrape_single_day, once the clicks of 3 row indices in a row have
\* failed on a page the row loop of the page is over (no later row index
\* is attempted), and the list the walk returns holds every record
\* collected, those of that page included.
C3_ThreeMissesStop ==
  prog = "day" =>
    /\ hist.clickFailRun >= MissLimit => pc \notin DayRowPcs
    /\ hist.clickFailRun <= MissLimit
    /\ pc = "returned" => all_records = EmittedRecs

\* the walk returned after 3 failed clicks in a row stopped a page on which
\* records had been collected, with a row index left that was not attempted
C3_Witness ==
  /\ prog = "day" /\ pc = "returned"
  /\ hist.clickFailRun = MissLimit
  /\ page_records # << >>
  /\ InRowRange(row_idx + 1)

\* the row loop of the page has no further index to take
RowsExhausted ==
  IF prog = "day" THEN ~InRowRange(row_idx + 1) ELSE ~(row_idx + 1 < num_rows)

\* the step goes on with the row, or with the next row index, or ends the
\* row loop because no index is left
GoesOn == pc' \in RowPcs \/ (RowsExhausted /\ pc' \in {"end_page", "d_next"})

\* the step is a failure of step a (the click): a miss, or an exception
ClickFailed ==
  \/ pc = "click" /\ (consecutive_misses' > consecutive_misses \/ pc' = "raised")
  \/ pc = "d_click" /\ pc' = "raised"

\* the step is a failure of steps b-e (detail load, the extractions)
LoadOrExtractFailed ==
  pc \in {"wait_doc", "extract", "d_details", "d_extract"} /\ faults' > faults

\* the step is a failure of step f (the return to the results list)
BackFailed == pc \in {"back", "d_back"} /\ hist'.backFailed

C5_NoStaleHandle == ~hist.staleUse

\* C6: a frame wait raises only when its whole timeout has elapsed and no
\* scan found the frame; it returns at the first scan that finds the frame.
C6_FrameWait ==
  fw.fn \in {"name", "url"} =>
    /\ fw.result = "timeout" => (fw.t >= TimeoutMs(fw) /\ fw.hits = 0)
    /\ fw.result = "found" => (fw.hits = 1 /\ fw.pc = "done")
    /\ fw.hits >= 1 => fw.result = "found"

\* a wait by URL fragment raised after two or more scans
C6_Witness ==
  /\ fw.fn = "url"
  /\ fw.result = "timeout"
  /\ fw.polls >= 2

\* lexicographic order of (page index, row index, position in the extraction)
LexLess(a, b) ==
  \/ a[1] < b[1]
  \/ a[1] = b[1] /\ a[2] < b[2]
  \/ a[1] = b[1] /\ a[2] = b[2] /\ a[3] < b[3]

\* the records of the current page not yet put on the list
Pending ==
  IF pc \in DayRowPcs \cup {"end_page", "raised"} THEN page_records ELSE << >>

\* C7: the list of scrape_single_day holds the records in the order of
\* page index, then row index, then position in the representative
\* extraction; the page indices visited are 1, 2, 3, ...
C7_Ordered ==
  prog = "day" =>
    /\ all_records \o Pending = EmittedRecs
    /\ \A i, j \in 1..Len(hist.emitted) :
         i < j => LexLess(hist.emitted[i].at, hist.emitted[j].at)
    /\ \A i \in 1..Len(hist.pages) : hist.pages[i] = i
    /\ page_index \in { Len(hist.pages), Len(hist.pages) + 1 }

\* the returned list holds records of two pages, two of them of one row
C7_Witness ==
  /\ prog = "day" /\ pc = "returned"
  /\ \E i, j \in 1..Len(hist.emitted) :
       hist.emitted[i].at[1] < hist.emitted[j].at[1]
  /\ \E i, j \in 1..Len(hist.emitted) :
       /\ hist.emitted[i].at[1] = hist.emitted[j].at[1]
       /\ hist.emitted[i].at[2] = hist.emitted[j].at[2]
       /\ hist.emitted[i].at[3] < hist.emitted[j].at[3]

\* C8: the number of pages visited is at most max_pages, and the number of
\* rows attempted on a page at most the row budget.
C8_Bounded ==
  /\ page_index <= max_pages
  /\ Len(hist.pages) <= max_pages
  /\ row_idx < RowBudget

\* C9: when the return to the results list has failed, the row loop of the
\* page is over (no later row index is attempted), the walk does not end in
\* an exception, and the list it returns holds every record added.
C9_BackFailureStops ==
  hist.backFailed =>
    /\ pc \notin RowPcs
    /\ pc # "raised"
    /\ pc = "returned" => all_records = EmittedRecs

\* C10: when goto_results_page has failed on all its tries,
\* scrape_single_day ends without an exception and returns every record
\* added up to then.
C10_GotoFailureReturns ==
  [][ (prog = "day" /\ pc = "next_page" /\ MorePagesAllowed(page_index)
         /\ page_index' = page_index)
      => (pc' = "returned" /\ all_records' = all_records
            /\ all_records = EmittedRecs) ]_vars

\* the walk returned from a page past the first because the navigation to
\* the next page failed, with records on the list
C10_Witness ==
  /\ prog = "day" /\ pc = "returned"
  /\ page_index >= 2
  /\ Len(hist.pages) = page_index
  /\ MorePagesAllowed(page_index)
  /\ all_records # << >>

(***************************************************************************)
(* Properties of the navigation steps.                                     *)
(***************************************************************************)

\* a call of a navigation step is modelled
InCall == run.pc \in {"solo", "steps"}

\* C15: for a retry count n >= 1, goto_login, accept_terms,
\* click_search_public_records and enter_filing_dates make at most n
\* attempts, make no attempt after the first successful one, pause the same
\* backoff between a failed attempt and the next, and raise if and only if
\* all n attempts failed.
C15_RetryDiscipline ==
  (InCall /\ run.call.fn \in RaisingSteps /\ run.call.retries >= 1) =>
    LET c == run.call
    IN  /\ c.tries <= c.retries
        /\ c.result \in {"running", "returned", "raised"}
        /\ c.result = "returned" => c.tries = c.fails + 1
        /\ c.result # "returned" => c.tries = c.fails
        /\ (c.result = "raised") <=> (c.fails = c.retries)
        /\ Len(c.pauses) = (IF c.fails = c.retries THEN c.retries - 1 ELSE c.fails)
        /\ \A i, j \in 1..Len(c.pauses) : c.pauses[i] = c.pauses[j] /\ c.pauses[i] > 0

\* enter_filing_dates raised after 3 failed attempts and 2 pauses
C15_Witness ==
  /\ InCall
  /\ run.call.fn = "enter_filing_dates"
  /\ run.call.retries = DefaultRetries
  /\ run.call.result = "raised"
  /\ run.call.tries = DefaultRetries
  /\ Len(run.call.pauses) = DefaultRetries - 1

\* C19: the dates of every search the programs enter have from-date <=
\* to-date, and a to-date that is not given is the current date.
C19_FromNotAfterTo ==
  (InCall /\ run.call.caller = "program" /\ run.call.fn = "enter_filing_dates"
     /\ run.call.result = "returned") =>
    LET c == run.call
    IN  /\ IsDateText(c.typed.from) /\ IsDateText(c.typed.to)
        /\ DayLeq(DayOfText(c.typed.from), DayOfText(c.typed.to))
        /\ c.to_date = None => DayOfText(c.typed.to) = c.today

\* testing.py entered its default dates on a day after 01/01/2025
C19_Witness ==
  /\ InCall /\ run.call.caller = "program" /\ run.call.file = "testing"
  /\ run.call.fn = "enter_filing_dates" /\ run.call.result = "returned"
  /\ run.call.to_date = None
  /\ run.call.today = << 2025, 3, 9 >>
  /\ run.call.typed.to = "03/09/2025"

\* C20: enter_filing_dates called with from_date "01/01/2025" and to_date
\* None takes the current date in MM/DD/YYYY form as the to-date, and when
\* it returns the inputs hold from_date and that to-date.
C20_DefaultToDateTyped ==
  (InCall /\ run.call.fn = "enter_filing_dates" /\ run.call.retries >= 1
     /\ run.call.from_date = DefaultFromDate /\ run.call.to_date = None) =>
    LET c == run.call
    IN  /\ EffectiveToDate(c) = TextOfDay[c.today]
        /\ c.result = "returned" =>
             c.typed = [ from |-> DefaultFromDate, to |-> TextOfDay[c.today] ]

(***************************************************************************)
(* Properties of the run.                                                  *)
(***************************************************************************)

\* a run of main() is modelled, and it is over
RunEnded == run.pc = "ended"

\* C11: when a run is over, the records extracted in it, whether or not a
\* failure followed, have been handed to the exporter.
C11_RecordsReachExporter ==
  (RunEnded /\ hist.emitted # << >>) =>
    (run.exported /\ run.handed = EmittedRecs)

\* C12: when a navigation step (login, accept terms, open search, enter
\* criteria) has failed on all its tries, the error reaches main and a
\* dump of the page's markup has been attempted when the run is over.
C12_DumpOnNavigationFailure ==
  (RunEnded /\ run.failed \in RaisingSteps) =>
    run.dumps + run.stepDumps >= 1

\* C13: a run in which a navigation step failed does not complete
\* normally: main ends with the exception.
C13_FailureIsReported ==
  (RunEnded /\ run.failed \in RaisingSteps) => run.outcome = "exception"

\* the steps of a run, the walk of the results last
RunOrder == Append(StepOrder, "walk")

\* C14: the steps of a run start in the order login, accept terms, open
\* search, enter criteria, submit search, walk results, and once a step has
\* failed no later step is started.
C14_StrictOrder ==
  run.pc \in {"steps", "walk", "ended"} =>
    /\ Len(run.steps) <= Len(RunOrder)
    /\ \A i \in 1..Len(run.steps) : run.steps[i] = RunOrder[i]
    /\ run.submit = "False" => run.steps[Len(run.steps)] = "click_search_button"
    /\ (run.pc = "ended" /\ run.failed \in RaisingSteps) =>
         run.steps[Len(run.steps)] = run.failed

\* C16: click_search_button never raises; it returns True at the first
\* successful attempt and False when all attempts failed; and after False
\* no results page is walked.
C16_SubmitFailureWalksNothing ==
  /\ (InCall /\ run.call.fn = "click_search_button" /\ run.call.retries >= 1) =>
       /\ run.call.result \in {"running", "True", "False"}
       /\ run.call.result = "True" => run.call.tries = run.call.fails + 1
       /\ (run.call.result = "False") <=> (run.call.fails = run.call.retries)
  /\ (run.pc \in {"walk", "ended"} /\ run.submit = "False") =>
       /\ hist.pages = << >>
       /\ all_records = << >>

(***************************************************************************)
(* Properties of the records of a page.                                    *)
(***************************************************************************)

\* C17: when the decedent extraction or the representative extraction of a
\* visited detail view fails, the fields it was to give are empty strings
\* and the record is still added to the output.
C17_FailedExtractionStillEmits ==
  (RowProcessed /\ (~hist.lastRow.decOk \/ ~hist.lastRow.repsOk)) =>
    /\ hist.lastRow.added >= 1
    /\ \A i \in 1..Len(LastAdded) :
         LET r == LastAdded[i].rec
         IN  /\ ~hist.lastRow.decOk =>
                  r.filing_date = "" /\ r.decedent_address = ""
             /\ ~hist.lastRow.repsOk =>
                  r.representative_name = "" /\ r.representative_address = ""

Max(a, b) == IF a >= b THEN a ELSE b

\* the sum over the rows 0 .. n-1 of max(1, representatives of the row)
RECURSIVE ExpectedCount(_)
ExpectedCount(n) ==
  IF n = 0 THEN 0
  ELSE ExpectedCount(n - 1) + Max(1, Len(SiteReps(n - 1)))

\* C18: a results page on which every row was processed without a failure
\* contributes the sum over its rows of max(1, representatives of the row)
\* records.
C18_PageContribution ==
  /\ (prog = "day" /\ pc = "end_page" /\ faults = 0) =>
       Len(page_records) = ExpectedCount(nRows)
  /\ (prog = "deep" /\ pc = "d_next" /\ faults = 0 /\ page_index = 1) =>
       Len(all_records) = ExpectedCount(num_rows)

(***************************************************************************)
(* Properties of the decedent's address.                                   *)
(***************************************************************************)

\* two texts put together, with ", " between them when neither is empty
Glue(a, b) == IF a = "" THEN b ELSE IF b = "" THEN a ELSE a \o ", " \o b

\* the length of the texts of a sequence, taken together
RECURSIVE TotalLen(_)
TotalLen(parts) ==
  IF parts = << >> THEN 0 ELSE Len(Head(parts)) + TotalLen(Tail(parts))

\* C21: the decedent address is the non-empty fragments among street, city,
\* state and zip, in that order, joined with ", "; an empty fragment adds
\* nothing, and the address is empty when the four fragments are.
C21_AddressAssembly ==
  (run.pc = "address" /\ run.result # None) =>
    LET p == run.parts
        n == Cardinality({ i \in 1..4 : p[i] # "" })
    IN  /\ Len(p) = 4
        /\ run.result = Glue(Glue(Glue(p[1], p[2]), p[3]), p[4])
        /\ Len(run.result) = TotalLen(p) + (IF n = 0 THEN 0 ELSE 2 * (n - 1))
        /\ (run.result = "") <=> (n = 0)
        /\ p = << "123 Main St", "Media", "PA", "19063" >> =>
             run.result = "123 Main St, Media, PA, 19063"
        /\ p = << "", "Media", "", "19063" >> => run.result = "Media, 19063"

\* the address of a detail view that holds a city and a ZIP only
C21_Witness ==
  /\ run.pc = "address"
  /\ run.parts = << "", "Media", "", "19063" >>
  /\ run.result = "Media, 19063"

(***************************************************************************)
(* Properties of the resolution of frames.                                 *)
(***************************************************************************)

\* f is the first of the frames that matches
IsFirstOf(frames, kind, v, f) ==
  \E i \in 1..Len(frames) :
    /\ frames[i] = f
    /\ FrameMatches(f, kind, v)
    /\ \A j \in 1..(i - 1) : ~FrameMatches(frames[j], kind, v)

IsPrefix(s, t) == Len(s) <= Len(t) /\ SubSeq(t, 1, Len(s)) = s

\* the records the walk has put out so far: the list, and for
\* scrape_single_day the records of the current page after it
WalkOutput == all_records \o Pending

\* C23: the records put out are only ever appended to: no step of a run of
\* main.py changes, removes or reorders a record that was put out, every later
\* output has the earlier one as a prefix, and the list handed to the
\* exporter is that sequence.
C23_AppendOnly ==
  [][ /\ IsPrefix(WalkOutput, WalkOutput')
      /\ IsPrefix(EmittedRecs, EmittedRecs')
      /\ WalkOutput' = EmittedRecs'
      /\ (run'.pc = "ended" /\ run'.exported) =>
           (run'.handed = WalkOutput /\ all_records' = EmittedRecs') ]_vars

\* a run of main.py handed the exporter records of two pages
C23_Witness ==
  /\ prog = "day"
  /\ RunEnded /\ run.exported
  /\ run.handed = EmittedRecs
  /\ \E i, j \in 1..Len(hist.emitted) :
       hist.emitted[i].at[1] < hist.emitted[j].at[1]

(***************************************************************************)
(* Properties of the dates persisted.                                      *)
(***************************************************************************)

\* the titles of the month sheets, and the days the texts of a column B name
MonthTitles == { "2025-01", "2025-03" }
DayOfCell ==
  "01/15/2025" :> << 2025, 1, 15 >> @@ "2025-01-20" :> << 2025, 1, 20 >> @@
  "03/10/25" :> << 2025, 3, 10 >> @@ "03/09/2025" :> << 2025, 3, 9 >> @@
  "12/31/2025" :> << 2025, 12, 31 >>

\* the filing dates the month sheets of the spreadsheet hold
PersistedDays ==
  { DayOfCell[run.sheets[p[1]].values[p[2]]] :
      p \in { q \in (1..Len(run.sheets)) \X (1..3) :
                /\ run.sheets[q[1]].title \in MonthTitles
                /\ q[2] <= Len(run.sheets[q[1]].values)
                /\ run.sheets[q[1]].values[q[2]] \in DOMAIN DayOfCell } }

\* C24: get_last_scraped_date returns the latest of the filing dates the
\* month sheets hold, None when they hold none, and main searches the day
\* after the date returned.
C24_LastDateIsMaximum ==
  (run.pc \in {"scrape_date", "dated"}) =>
    /\ IF PersistedDays = {} THEN run.last = NoDay
       ELSE /\ run.last \in PersistedDays
            /\ \A d \in PersistedDays : DayLeq(d, run.last)
    /\ (run.pc = "dated" /\ run.last # NoDay) => run.scrape = NextDay(run.last)

(***************************************************************************)
(* Properties of the export.                                               *)
(***************************************************************************)

\* the month a filing date belongs to, "Unknown" for a text that is in none
\* of the formats the exporter of the file reads
ExpectedKey(file, text) ==
  CASE text = "01/15/2025" -> "2025-01"
    [] text = "03/10/25" -> "2025-03"
    [] text = "2025-01-20" /\ file = "main" -> "2025-01"
    [] OTHER -> "Unknown"

\* the records of the first n groups whose append succeeded
RECURSIVE AppendedCount(_, _, _)
AppendedCount(groups, appends, n) ==
  IF n = 0 THEN 0
  ELSE AppendedCount(groups, appends, n - 1)
         + (IF appends[n] THEN Len(groups[n].records) ELSE 0)

\* the places of the groups: (group, position in the group)
GroupPlaces(groups) ==
  { p \in (1..Len(groups)) \X (1..MaxRecords) : p[2] <= Len(groups[p[1]].records) }

\* C25: the exporter puts every record of its input in exactly one group,
\* the group of the month of its filing date, or "Unknown" when the date
\* does not parse; a group holds its records in the order of the input;
\* append_to_google_sheets tries the append of every group, whether or not
\* an earlier one failed, and returns the number of the records of the
\* groups whose append succeeded.
C25_PartitionByMonth ==
  (run.pc = "export" /\ run.at # "group") =>
    LET g == run.groups
    IN  /\ \A i \in 1..Len(run.records) :
             Cardinality({ p \in GroupPlaces(g) :
                             g[p[1]].records[p[2]] = run.records[i] }) = 1
        /\ Cardinality(GroupPlaces(g)) = Len(run.records)
        /\ \A p \in GroupPlaces(g) :
             g[p[1]].key = ExpectedKey(run.file, g[p[1]].records[p[2]].filing_date)
        /\ \A k, l \in 1..Len(g) : g[k].key = g[l].key => k = l
        /\ \A p, q \in GroupPlaces(g) :
             (p[1] = q[1] /\ p[2] < q[2]) =>
               g[p[1]].records[p[2]].no < g[q[1]].records[q[2]].no
        /\ (run.file = "main" /\ run.at = "done") =>
             /\ Len(run.appends) = Len(g)
             /\ run.returned = AppendedCount(g, run.appends, Len(g))
        /\ (run.file = "testing" /\ run.at = "done") =>
             { run.written[k] : k \in 1..Len(run.written) }
               = { g[k] : k \in 1..Len(g) }

\* append_to_google_sheets returned after the append of its first group
\* failed and the append of its second group, of two records, succeeded
C25_Witness ==
  /\ run.pc = "export" /\ run.file = "main" /\ run.at = "done"
  /\ Len(run.groups) = 2
  /\ run.appends = << FALSE, TRUE >>
  /\ Len(run.groups[2].records) = 2
  /\ run.returned = 2

(***************************************************************************)
(* Properties of the misses of a page.                                     *)
(***************************************************************************)

\* C26: in scrape_single_day a failed detail load is a miss like a failed
\* click, and once 3 misses in a row have occurred (failed clicks, failed
\* detail loads, or both) the row loop is over before the next row index
\* is attempted; the count of the misses in a row is never above 3.
C26_MixedMissesStop ==
  prog = "day" =>
    /\ consecutive_misses = hist.missRun
    /\ consecutive_misses <= MissLimit
    /\ consecutive_misses >= MissLimit => pc \notin DayRowPcs

(***************************************************************************)
(* Properties of the end of the walk.                                      *)
(***************************************************************************)

\* C27: when no row link appears on the current results page within the 5
\* waits, scrape_single_day ends: it returns the records of the earlier
\* pages, and no row is clicked and no page navigation is made afterwards.
C27_EmptyPageEndsWalk ==
  [][ /\ (prog = "day" /\ pc = "wait_results" /\ pc' # "click") =>
           /\ pc' = "returned"
           /\ all_records' = all_records
           /\ all_records' = EmittedRecs'
           /\ hist'.pages = hist.pages
           /\ page_index' = page_index /\ row_idx' = row_idx
      /\ pc # "returned" ]_vars

\* the walk returned the records of page 1 because no row link appeared on
\* page 2
C27_Witness ==
  /\ prog = "day" /\ pc = "returned"
  /\ page_index = 2
  /\ hist.pages = << 1 >>
  /\ all_records # << >>
  /\ all_records = EmittedRecs

(***************************************************************************)
(* Properties of the return to the results list.                           *)
(***************************************************************************)

\* C28: in one attempt click_back_to_results tries the back control by
\* text, by onclick attribute, by alt text and by script, in that order, a
\* later strategy only after every earlier one failed; and it returns True
\* only if a back control was activated and the results view was found
\* again afterwards.
C28_BackStrategies ==
  run.pc = "back" =>
    /\ Len(run.tried) <= Len(BackStrategies)
    /\ \A i \in 1..Len(run.tried) : run.tried[i] = BackStrategies[i]
    /\ run.at = "try" => ~run.clicked
    /\ run.result = "True" => (run.activated /\ run.found)

(***************************************************************************)
(* Properties of the click of a row.                                       *)
(***************************************************************************)

\* the links of the results list carry ids inst<n>
IdScheme(links) == \E p \in 1..Len(links) : links[p] # NoId

\* C29: click_result_link_by_index(i) clicks the link with the id inst<i>
\* whenever there is one, takes the i-th link by position only when the
\* links carry no ids, makes at most one successful click, and returns True
\* if and only if a click succeeded.
C29_ClickByIdFirst ==
  (run.pc = "click_link" /\ run.at = "done") =>
    /\ PositionOfId(run.links, run.index) # 0 =>
         \A k \in 1..Len(run.clicks) :
           run.clicks[k] = PositionOfId(run.links, run.index)
    /\ run.byIndex => ~IdScheme(run.links)
    /\ Len(run.clicks) <= 1
    /\ (run.result = "True") <=> (Len(run.clicks) = 1)

(***************************************************************************)
(* Properties of the extraction of the representatives.                    *)
(***************************************************************************)

\* the texts that read as a name; the other non-empty texts read as an address
NameTexts == { "DEE FOX", "ED GUY" }

\* the representatives of the rows: one for every name row, its address the
\* address rows up to the next name row, joined with a space
RepsOfRows(rows) ==
  LET ne == SelectSeq(rows, LAMBDA t : t # "")
      namePos == SelectSeq(Indices(ne), LAMBDA i : ne[i] \in NameTexts)
      upTo(k) == IF k < Len(namePos) THEN namePos[k + 1] - 1 ELSE Len(ne)
  IN  [ k \in 1..Len(namePos) |->
          Rep(ne[namePos[k]], Join(" ", SubSeq(ne, namePos[k] + 1, upTo(k)))) ]

\* C30: the extraction of the representatives scans the non-empty rows in
\* order; every name-like row starts a representative, whose address is the
\* address-like rows between its name row and the next name-like row joined
\* with a space; as many representatives are returned as there are
\* name-like rows.
C30_RepsOfRows ==
  (run.pc = "reps" /\ run.done) =>
    /\ Len(run.reps) = Len(RepsOfRows(run.rows))
    /\ run.reps = RepsOfRows(run.rows)

(***************************************************************************)
(* Properties of the views in which scrape_single_day acts.                *)
(***************************************************************************)

\* the walk is about to call click_result_link_by_index (main.py:947) or
\* goto_results_page (main.py:1061)
AboutToClickOrTurn ==
  /\ prog = "day"
  /\ pc = "click" \/ (pc = "next_page" /\ MorePagesAllowed(page_index))

\* C31: in scrape_single_day a row link is clicked, and the next page asked
\* for, only while the results list is the displayed view: after a row was
\* opened the walk has returned to the results list before it clicks the
\* next row or navigates to the next page.
C31_ClickOnlyInResults ==
  AboutToClickOrTurn => view = "results"

\* C32: goto_results_page(n) returns True only if the results list then
\* displays page n: the page the walk of scrape_single_day takes itself to
\* be on is the page the site displays, so no results page is processed
\* twice.
C32_GotoShowsPage ==
  prog = "day" => shownPage = page_index

(***************************************************************************)
(* Properties of the daily runs of main.                                   *)
(***************************************************************************)
DayLess(a, b) == DayLeq(a, b) /\ a # b

\* a run starts after a run that searched, and goes on to search
NextSearchStarts ==
  /\ run.pc = "daily" /\ run.at = "idle" /\ run.prev # NoDay
  /\ run'.at = "launched"

\* C33: repeated daily runs of main make progress: a run that searches
\* after a completed run searches a strictly later date, also when the
\* earlier run found no record to append.
C33_RunsMakeProgress ==
  [][NextSearchStarts => DayLess(run.prev, run'.scrape)]_vars

\* C34: across the runs of main the records of one scrape date are appended
\* at most once: once a run has appended the records of a date, no later
\* run searches that date again.
C34_NoDateSearchedAgain ==
  run.pc = "daily" => ~run.again

\* a run of main starts
RunStarts == run.pc = "daily" /\ run'.runs = run.runs + 1

\* C35: main never searches a date later than the current date: a run
\* that launches the browser has a scrape date that is today or earlier,
\* and a run whose scrape date is in the future ends without launching the
\* browser and without appending anything.
C35_NeverSearchesFuture ==
  [][ /\ (run.pc = "daily" /\ run'.at = "launched")
           => DayLeq(run'.scrape, run'.today)
      /\ (RunStarts /\ ~DayLeq(run'.scrape, run.today))
           => /\ run'.at = "idle"
              /\ run'.launches = run.launches
              /\ run'.sheets = run.sheets ]_vars

\* a run found the day after today as its scrape date and ended at once
C35_Witness ==
  /\ run.pc = "daily" /\ run.at = "idle"
  /\ run.scrape = NextDay(run.today)
  /\ run.launches < run.runs

(***************************************************************************)
(* Properties of the browser's closing.                                    *)
(***************************************************************************)

\* C36: once the browser has been launched it is closed exactly once before
\* main returns, on every path: it is not closed while the run goes on, and
\* when main has returned or raised it was closed once, whether records
\* were exported, none were found, a navigation step failed or the export
\* failed.
C36_ClosedExactlyOnce ==
  (run.pc \in {"setup", "steps", "walk", "ended"}) =>
    run.closed = (IF run.pc = "ended" THEN 1 ELSE 0)

\* a run ended by the failure of a navigation step
C36_Witness ==
  /\ run.pc = "ended"
  /\ run.failed \in StepFns
  /\ run.closed = 1

(***************************************************************************)
(* Properties of the navigation steps for every value of retries.          *)
(***************************************************************************)

\* one attempt of the call went through
OneAttemptSucceeded(c) == c.tries > c.fails

\* C37: for every value of retries, zero included, goto_login,
\* accept_terms, click_search_public_records and enter_filing_dates return
\* normally only if one attempt succeeded, and click_search_button returns
\* a boolean, which is True only if one attempt succeeded.
C37_ReturnMeansSuccess ==
  run.pc = "solo" =>
    /\ (run.call.fn \in RaisingSteps /\ run.call.result \notin {"running", "raised"})
         => OneAttemptSucceeded(run.call)
    /\ (run.call.fn = "click_search_button" /\ run.call.result # "running")
         => /\ run.call.result \in {"True", "False"}
            /\ run.call.result = "True" => OneAttemptSucceeded(run.call)

(***************************************************************************)
(* Properties of the records scrape_single_day returns.                    *)
(***************************************************************************)
HasRepresentative(r) ==
  /\ "representative_name" \in DOMAIN r /\ r.representative_name # ""
  /\ "representative_address" \in DOMAIN r /\ r.representative_address # ""

\* C38: every record scrape_single_day of main.py collects and returns has
\* a non-empty representative_name and a non-empty representative_address,
\* and a visited row contributes at most as many records as
\* representatives were extracted from it (possibly none).
C38_OnlyCompleteRecords ==
  prog = "day" =>
    /\ \A i \in 1..Len(all_records) : HasRepresentative(all_records[i])
    /\ \A i \in 1..Len(page_records) : HasRepresentative(page_records[i])
    /\ hist.lastRow.added <= hist.lastRow.reps

\* the walk returned records, and of the representatives of the last row
\* visited one was left out
C38_Witness ==
  /\ prog = "day" /\ pc = "returned"
  /\ all_records # << >>
  /\ hist.lastRow.reps = 2 /\ hist.lastRow.added = 1

(***************************************************************************)
(* Properties of the reset of the miss counter.                            *)
(***************************************************************************)

\* the row loop is left because of the misses (main.py:956-958), row
\* indices being left in the range
StoppedByMisses ==
  /\ prog = "day" /\ pc = "click" /\ pc' = "end_page"
  /\ InRowRange(row_idx + 1)

\* a row is processed to the point of emitting its records (main.py:1030-1032)
RowEmits == prog = "day" /\ pc = "extract" /\ pc' = "back"

\* C39: in scrape_single_day the counter of the consecutive misses is set
\* to 0 by every row that is processed to the point of emitting its
\* records, so it counts the misses since the last such row only, and the
\* row loop is stopped by misses only when 3 misses came with no processed
\* row between them.
C39_ResetBySuccess ==
  [][ /\ RowEmits => consecutive_misses' = 0
      /\ prog = "day" => consecutive_misses' = hist'.missRun
      /\ StoppedByMisses => hist'.missRun >= MissLimit ]_vars

\* the row loop was stopped by 3 misses that followed a processed row, a
\* miss having come before that row
C39_Witness ==
  /\ prog = "day" /\ pc = "end_page"
  /\ consecutive_misses = MissLimit
  /\ hist.pageMisses = MissLimit + 1

====
